---- MODULE Spec2Model ----
(***************************************************************************)
(* Retrieval engine of deep_research_app: EmbeddingClient.embed,           *)
(* HybridSearcher (vector / keyword candidate sources, weighted RRF        *)
(* fusion, source metadata cache), Reranker and RetrievalPipeline.         *)
(*                                                                         *)
(* Numbers.  Weights are held in tenths (0.6 is 6).  A fused score is held *)
(* as an integer multiple of 1 / (10 * ScoreScale(k)), where ScoreScale(k) *)
(* is a common multiple of every denominator k + r that can occur, so the  *)
(* arithmetic of _rrf_merge is exact rational arithmetic here; the         *)
(* rounding of IEEE doubles is not modelled.  Raw similarity / lexical     *)
(* rank scores and cross-encoder outputs are small integers.               *)
(***************************************************************************)
EXTENDS Integers, Sequences, FiniteSets, TLC

VARIABLES
    config,            \* RetrievalConfig held by the searcher / pipeline
    pc,                \* position of the caller (retrieve / a direct call)
    top_k_arg,         \* top_k argument of the call, 0 for None
    search_top_k,      \* top_k parameter retrieve passes to searcher.search
    vpc,               \* position of the _vector_search coroutine
    kpc,               \* position of the _keyword_search coroutine
    texts,             \* argument of EmbeddingClient.embed
    epc,               \* position inside EmbeddingClient.embed
    retry,             \* loop variable of embed
    retry_delay,       \* local of embed, seconds
    last_error,        \* exception caught by the last failed attempt
    embed_result,      \* value returned by embed
    provider_calls,    \* number of openai.embeddings.create calls
    sleeps,            \* delays passed to asyncio.sleep, in order
    vector_rpc,        \* match_count of every match_chunks call
    keyword_rpc,       \* match_count of every search_chunks_keyword call
    vector_results,    \* list built by _vector_search
    keyword_results,   \* list built by _keyword_search
    fused_results,     \* list returned by _rrf_merge
    rrf_calls,         \* number of _rrf_merge calls
    initial_results,   \* list returned by searcher.search
    source_cache,      \* HybridSearcher._source_cache
    source_lookups,    \* number of queries against the sources table
    reranker_built,    \* RetrievalPipeline._reranker is not None
    model_loads,       \* number of CrossEncoder(...) constructions
    predicted,         \* scores returned by the last model.predict call
    predict_calls,     \* number of model.predict calls
    results,           \* value returned to the caller
    current_run_id,    \* tools.retrieval._current_run_id
    current_config,    \* tools.retrieval._current_config
    tool_pc,           \* position of the running tool coroutine
    tool_call,         \* locals of the running tool
    all_results,       \* all_results.values() of multi_query_search_tool
    tool_out,          \* value the tool returned
    rq,                \* per in-flight retrieve call: position and locals
    worker,            \* per retrieve call: its executor job running rerank
    lookup_log,        \* sources-table queries per source_id since the last
                       \* clear_cache
    mw                 \* the RetrievalMiddleware instances, and the scope of
                       \* the tool call made by the agent of one of them

vars == <<config, pc, top_k_arg, search_top_k, vpc, kpc, texts, epc, retry,
          retry_delay, last_error, embed_result, provider_calls, sleeps,
          vector_rpc, keyword_rpc, vector_results, keyword_results,
          fused_results, rrf_calls, initial_results, source_cache,
          source_lookups, reranker_built, model_loads, predicted,
          predict_calls, results, current_run_id, current_config, tool_pc,
          tool_call, all_results, tool_out, rq, worker, lookup_log,
          mw>>

embedVars == <<texts, epc, retry, retry_delay, last_error, embed_result,
               provider_calls, sleeps>>

searchVars == <<vpc, kpc, vector_rpc, keyword_rpc, vector_results,
                keyword_results, source_cache, source_lookups>>

rerankVars == <<reranker_built, model_loads, predicted, predict_calls>>

concVars == <<rq, worker, lookup_log, mw>>

toolVars == <<current_run_id, current_config, tool_pc, tool_call,
              all_results, tool_out>>

pipelineVars == <<config, pc, top_k_arg, search_top_k, fused_results,
                  rrf_calls, initial_results, results>>

----------------------------------------------------------------------------
(* Bounds of the model *)

\* longest list a datastore primitive returns
MaxLen == 2

\* longest list of texts handed to embed
MaxTexts == 3

\* largest top_k a caller passes
MaxTopK == 3

\* longest list of queries handed to multi_query_search_tool
MaxQueries == 2

(* Program constants *)

max_retries == 3

initial_retry_delay == 1

EmbeddingDim == 1536

----------------------------------------------------------------------------
(* Values *)

Chunks == {"A", "B", "C"}

SourceOf == [c \in Chunks |-> IF c = "C" THEN "S2" ELSE "S1"]

\* rows of the sources table; S2 has no row
SourcesTable == [s \in {"S1"} |-> [title |-> "Title1", uri |-> "uri1"]]

Min(a, b) == IF a <= b THEN a ELSE b

Put(f, key, v) == [x \in (DOMAIN f) \cup {key} |-> IF x = key THEN v ELSE f[x]]

EmptyMap == [x \in {} |-> 0]

\* all sequences over S of length at most n
SeqsUpTo(S, n) == UNION {[1..m -> S] : m \in 0..n}

IsDistinct(ids) == \A i, j \in 1..Len(ids) : i # j => ids[i] # ids[j]

Ids(rs) == [i \in 1..Len(rs) |-> rs[i].chunk_id]

IdSet(rs) == {rs[i].chunk_id : i \in 1..Len(rs)}

\* Python's s[:n] for n >= 0
Slice(s, n) == SubSeq(s, 1, Min(n, Len(s)))

----------------------------------------------------------------------------
(* Stable descending sort, as sorted(..., reverse=True) and               *)
(* list.sort(reverse=True): elements with equal keys keep their order.    *)

\* InsertDesc sorting in ascending order (reverse=True forgotten)
InsertAsc(perm, i, keys) ==
    LET pos == Cardinality({j \in 1..Len(perm) : keys[perm[j]] <= keys[i]})
    IN  SubSeq(perm, 1, pos) \o <<i>> \o SubSeq(perm, pos + 1, Len(perm))

\* InsertDesc putting i before the indices whose key equals its own
InsertDescBeforeEqual(perm, i, keys) ==
    LET pos == Cardinality({j \in 1..Len(perm) : keys[perm[j]] > keys[i]})
    IN  SubSeq(perm, 1, pos) \o <<i>> \o SubSeq(perm, pos + 1, Len(perm))

\* perm is sorted; i goes after every index whose key is >= its own
InsertDesc(perm, i, keys) ==
    LET pos == Cardinality({j \in 1..Len(perm) : keys[perm[j]] >= keys[i]})
    IN  SubSeq(perm, 1, pos) \o <<i>> \o SubSeq(perm, pos + 1, Len(perm))

RECURSIVE SortedIdx(_, _)
\* the indices 1..n of keys in the order the sort puts them
SortedIdx(keys, n) ==
    IF n = 0 THEN <<>> ELSE InsertDesc(SortedIdx(keys, n - 1), n, keys)

----------------------------------------------------------------------------
(* HybridSearcher._rrf_merge *)

RECURSIVE ProdFrom(_, _)
ProdFrom(k, n) == IF n = 0 THEN 1 ELSE (k + n) * ProdFrom(k, n - 1)

\* common multiple of the denominators k + 1 .. k + MaxLen
ScoreScale(k) == ProdFrom(k, MaxLen)

\* RrfScore taking the 0-indexed rank for the position
RrfScoreZeroIndexed(weight, k, rank) ==
    weight * (ScoreScale(k) \div (k + rank))

\* weight * (1.0 / (k + rank + 1)), rank 0-indexed as enumerate gives it
RrfScore(weight, k, rank) == weight * (ScoreScale(k) \div (k + rank + 1))

RECURSIVE ScoreVectorRaw(_, _, _, _)
\* ScoreVector adding the raw similarity of the record to its contribution
ScoreVectorRaw(cfg, acc, vr, i) ==
    IF i > Len(vr) THEN acc
    ELSE LET cid == vr[i].chunk_id
             seen == cid \in DOMAIN acc.scores
             old == IF seen THEN acc.scores[cid] ELSE 0
             s == RrfScore(cfg.vector_weight, cfg.rrf_k, i - 1) + vr[i].score
         IN  ScoreVectorRaw(cfg,
                 [scores |-> Put(acc.scores, cid, old + s),
                  order |-> IF seen THEN acc.order ELSE Append(acc.order, cid),
                  result_map |-> Put(acc.result_map, cid, vr[i])],
                 vr, i + 1)

RECURSIVE ScoreVector(_, _, _, _)
\* first loop: accumulate the score, the vector record always becomes the entry
ScoreVector(cfg, acc, vr, i) ==
    IF i > Len(vr) THEN acc
    ELSE LET cid == vr[i].chunk_id
             seen == cid \in DOMAIN acc.scores
             old == IF seen THEN acc.scores[cid] ELSE 0
             s == RrfScore(cfg.vector_weight, cfg.rrf_k, i - 1)
         IN  ScoreVector(cfg,
                 [scores |-> Put(acc.scores, cid, old + s),
                  order |-> IF seen THEN acc.order ELSE Append(acc.order, cid),
                  result_map |-> Put(acc.result_map, cid, vr[i])],
                 vr, i + 1)

RECURSIVE ScoreKeywordOverwrite(_, _, _, _)
\* ScoreKeyword assigning the contribution instead of adding it
ScoreKeywordOverwrite(cfg, acc, kr, i) ==
    IF i > Len(kr) THEN acc
    ELSE LET cid == kr[i].chunk_id
             seen == cid \in DOMAIN acc.scores
             s == RrfScore(cfg.keyword_weight, cfg.rrf_k, i - 1)
         IN  ScoreKeywordOverwrite(cfg,
                 [scores |-> Put(acc.scores, cid, s),
                  order |-> IF seen THEN acc.order ELSE Append(acc.order, cid),
                  result_map |-> IF cid \in DOMAIN acc.result_map
                                 THEN acc.result_map
                                 ELSE Put(acc.result_map, cid, kr[i])],
                 kr, i + 1)

RECURSIVE ScoreKeywordDup(_, _, _, _)
\* ScoreKeyword listing a candidate again when the vector list had it
ScoreKeywordDup(cfg, acc, kr, i) ==
    IF i > Len(kr) THEN acc
    ELSE LET cid == kr[i].chunk_id
             seen == cid \in DOMAIN acc.scores
             old == IF seen THEN acc.scores[cid] ELSE 0
             s == RrfScore(cfg.keyword_weight, cfg.rrf_k, i - 1)
         IN  ScoreKeywordDup(cfg,
                 [scores |-> Put(acc.scores, cid, old + s),
                  order |-> Append(acc.order, cid),
                  result_map |-> IF cid \in DOMAIN acc.result_map
                                 THEN acc.result_map
                                 ELSE Put(acc.result_map, cid, kr[i])],
                 kr, i + 1)

RECURSIVE ScoreKeywordPreferKeyword(_, _, _, _)
\* ScoreKeyword making the keyword record the entry of result_map
ScoreKeywordPreferKeyword(cfg, acc, kr, i) ==
    IF i > Len(kr) THEN acc
    ELSE LET cid == kr[i].chunk_id
             seen == cid \in DOMAIN acc.scores
             old == IF seen THEN acc.scores[cid] ELSE 0
             s == RrfScore(cfg.keyword_weight, cfg.rrf_k, i - 1)
         IN  ScoreKeywordPreferKeyword(cfg,
                 [scores |-> Put(acc.scores, cid, old + s),
                  order |-> IF seen THEN acc.order ELSE Append(acc.order, cid),
                  result_map |-> Put(acc.result_map, cid, kr[i])],
                 kr, i + 1)

RECURSIVE ScoreKeyword(_, _, _, _)
\* second loop: accumulate the score, keep the first record seen
ScoreKeyword(cfg, acc, kr, i) ==
    IF i > Len(kr) THEN acc
    ELSE LET cid == kr[i].chunk_id
             seen == cid \in DOMAIN acc.scores
             old == IF seen THEN acc.scores[cid] ELSE 0
             s == RrfScore(cfg.keyword_weight, cfg.rrf_k, i - 1)
         IN  ScoreKeyword(cfg,
                 [scores |-> Put(acc.scores, cid, old + s),
                  order |-> IF seen THEN acc.order ELSE Append(acc.order, cid),
                  result_map |-> IF cid \in DOMAIN acc.result_map
                                 THEN acc.result_map
                                 ELSE Put(acc.result_map, cid, kr[i])],
                 kr, i + 1)

\* scores, their insertion order and result_map after both loops
RrfScores(cfg, vr, kr) ==
    ScoreKeyword(cfg,
        ScoreVector(cfg, [scores |-> EmptyMap, order |-> <<>>,
                          result_map |-> EmptyMap], vr, 1),
        kr, 1)

\* SortedIds leaving the candidates in insertion order
SortedIdsUnsorted(acc) == acc.order

\* sorted(scores.keys(), key=lambda x: scores[x], reverse=True)
SortedIds(acc) ==
    LET keys == [i \in 1..Len(acc.order) |-> acc.scores[acc.order[i]]]
        perm == SortedIdx(keys, Len(keys))
    IN  [i \in 1..Len(perm) |-> acc.order[perm[i]]]

\* the record built for one fused candidate
FusedRecord(result, score) ==
    [chunk_id |-> result.chunk_id,
     source_id |-> result.source_id,
     content |-> result.content,
     contextual_prefix |-> result.contextual_prefix,
     page_start |-> result.page_start,
     page_end |-> result.page_end,
     section_hint |-> result.section_hint,
     score |-> score,
     source_title |-> result.source_title,
     source_uri |-> result.source_uri,
     search_type |-> "hybrid"]

RrfMerge(cfg, vr, kr, top_k) ==
    LET acc == RrfScores(cfg, vr, kr)
        kept == Slice(SortedIds(acc), top_k)
    IN  [i \in 1..Len(kept) |->
            FusedRecord(acc.result_map[kept[i]], acc.scores[kept[i]])]

----------------------------------------------------------------------------
(* Reranker.rerank *)

\* cross-encoder models: the score predict gives to (query, content)
Models ==
    {[c \in Chunks |-> CASE c = "A" -> 1 [] c = "B" -> 2 [] OTHER -> 3],
     [c \in Chunks |-> CASE c = "A" -> 5 [] c = "B" -> 0 - 2 [] OTHER -> 0],
     [c \in Chunks |-> 2]}

\* scores = self.model.predict(pairs), pairs = (query, result.content)
Predict(m, rs) == [i \in 1..Len(rs) |-> m[rs[i].content]]

\* RerankedRecord tagging the record as a hybrid result
RerankedRecordRetagged(result, score) ==
    [result EXCEPT !.score = score, !.search_type = "hybrid"]

\* the record built for one reranked candidate
RerankedRecord(result, score) == [result EXCEPT !.score = score]

\* Rerank without the cut to top_k
RerankNoCut(cfg, rs, scores, top_k) ==
    LET perm == SortedIdx(scores, Len(rs))
    IN  [i \in 1..Len(perm) |-> RerankedRecord(rs[perm[i]], scores[perm[i]])]

\* rerank on a non-empty list, with the scores predict returned
Rerank(cfg, rs, scores, top_k) ==
    LET k == IF top_k # 0 THEN top_k ELSE cfg.final_top_k
        perm == SortedIdx(scores, Len(rs))
        kept == Slice(perm, k)
    IN  [i \in 1..Len(kept) |-> RerankedRecord(rs[kept[i]], scores[kept[i]])]

----------------------------------------------------------------------------
(* Candidate sources *)

\* raw similarity (tenths) the vector index reports per chunk
VectorSims ==
    {[c \in Chunks |-> CASE c = "A" -> 9 [] c = "B" -> 8 [] OTHER -> 7],
     [c \in Chunks |-> CASE c = "A" -> 1 [] c = "B" -> 8 [] OTHER -> 9]}

\* raw lexical rank score the keyword index reports per chunk
KeywordRanks ==
    {[c \in Chunks |-> CASE c = "A" -> 4 [] c = "B" -> 5 [] OTHER -> 3],
     [c \in Chunks |-> CASE c = "A" -> 50 [] c = "B" -> 0 [] OTHER -> 7]}

\* result.data of a primitive: rows for the chunk ids, in the index's order
Rows(ids, raw, kind) ==
    [i \in 1..Len(ids) |->
        [id |-> ids[i],
         source_id |-> SourceOf[ids[i]],
         content |-> ids[i],
         contextual_prefix |-> IF kind = "vector" THEN "prefix" ELSE "none",
         page_start |-> IF kind = "vector" THEN 1 ELSE 0,
         page_end |-> IF kind = "vector" THEN 2 ELSE 0,
         section_hint |-> IF kind = "vector" THEN "section" ELSE "none",
         raw |-> raw[ids[i]]]]

\* GetSourceInfo answering a missing source with empty strings
GetSourceInfoBlank(source_id, cache, lookups) ==
    IF source_id \in DOMAIN cache
    THEN [info |-> cache[source_id], cache |-> cache, lookups |-> lookups]
    ELSE IF source_id \in DOMAIN SourcesTable
         THEN [info |-> SourcesTable[source_id],
               cache |-> Put(cache, source_id, SourcesTable[source_id]),
               lookups |-> lookups + 1]
         ELSE [info |-> [title |-> "", uri |-> ""],
               cache |-> cache, lookups |-> lookups + 1]

\* GetSourceInfo that never answers from the cache
GetSourceInfoNoCache(source_id, cache, lookups) ==
    IF source_id \in DOMAIN SourcesTable
    THEN [info |-> SourcesTable[source_id],
          cache |-> Put(cache, source_id, SourcesTable[source_id]),
          lookups |-> lookups + 1]
    ELSE [info |-> [title |-> "Unknown", uri |-> ""],
          cache |-> cache, lookups |-> lookups + 1]

\* _get_source_info: [info, cache, lookups] after one call
GetSourceInfo(source_id, cache, lookups) ==
    IF source_id \in DOMAIN cache
    THEN [info |-> cache[source_id], cache |-> cache, lookups |-> lookups]
    ELSE IF source_id \in DOMAIN SourcesTable
         THEN [info |-> SourcesTable[source_id],
               cache |-> Put(cache, source_id, SourcesTable[source_id]),
               lookups |-> lookups + 1]
         ELSE [info |-> [title |-> "Unknown", uri |-> ""],
               cache |-> cache, lookups |-> lookups + 1]

RECURSIVE BuildResultsLazy(_, _, _, _)
\* BuildResults leaving the source fields for a later stage: no lookup
BuildResultsLazy(rows, kind, i, acc) ==
    IF i > Len(rows) THEN acc
    ELSE LET r == rows[i]
             rec == [chunk_id |-> r.id,
                     source_id |-> r.source_id,
                     content |-> r.content,
                     contextual_prefix |-> r.contextual_prefix,
                     page_start |-> r.page_start,
                     page_end |-> r.page_end,
                     section_hint |-> r.section_hint,
                     score |-> r.raw,
                     source_title |-> IF r.source_id \in DOMAIN SourcesTable
                                      THEN SourcesTable[r.source_id].title
                                      ELSE "Unknown",
                     source_uri |-> IF r.source_id \in DOMAIN SourcesTable
                                    THEN SourcesTable[r.source_id].uri
                                    ELSE "",
                     search_type |-> kind]
         IN  BuildResultsLazy(rows, kind, i + 1,
                 [acc EXCEPT !.results = Append(acc.results, rec)])

RECURSIVE BuildResults(_, _, _, _)
\* the loop over result.data of _vector_search / _keyword_search
BuildResults(rows, kind, i, acc) ==
    IF i > Len(rows) THEN acc
    ELSE LET r == rows[i]
             g == GetSourceInfo(r.source_id, acc.cache, acc.lookups)
             rec == [chunk_id |-> r.id,
                     source_id |-> r.source_id,
                     content |-> r.content,
                     contextual_prefix |-> r.contextual_prefix,
                     page_start |-> r.page_start,
                     page_end |-> r.page_end,
                     section_hint |-> r.section_hint,
                     score |-> r.raw,
                     source_title |-> g.info.title,
                     source_uri |-> g.info.uri,
                     search_type |-> kind]
         IN  BuildResults(rows, kind, i + 1,
                 [results |-> Append(acc.results, rec),
                  cache |-> g.cache, lookups |-> g.lookups])

\* lists of chunk ids a primitive can answer a query for match_count rows with
Answers(match_count) == SeqsUpTo(Chunks, Min(match_count, MaxLen))

----------------------------------------------------------------------------
(* Configurations and initial states *)

DefaultVectorWeight == 6

DefaultKeywordWeight == 4

DefaultRrfK == 60

\* (vector_weight, keyword_weight) in tenths; Field(ge=0.0, le=1.0) each
WeightPairs == {<<6, 4>>, <<10, 0>>, <<0, 10>>, <<5, 5>>, <<0, 0>>}

\* rrf_k; Field(ge=1, le=100)
RrfKs == {1, 60}

\* (initial_top_k, final_top_k); Field(ge=1, le=200) and Field(ge=1, le=50)
TopKPairs == {<<3, 2>>, <<2, 1>>, <<1, 2>>}

\* top_k a caller passes to _rrf_merge
MergeTopKs == 1..MaxTopK

\* top_k a caller passes to retrieve; 0 stands for None (and for 0: both falsy)
TopKArgs == 0..MaxTopK

FusionConfigs ==
    {[search_type |-> "hybrid", vector_weight |-> w[1], keyword_weight |-> w[2],
      rrf_k |-> k, initial_top_k |-> 50, final_top_k |-> 10,
      use_reranking |-> TRUE] : w \in WeightPairs, k \in RrfKs}

PipelineConfigs ==
    {[search_type |-> st, vector_weight |-> DefaultVectorWeight,
      keyword_weight |-> DefaultKeywordWeight, rrf_k |-> DefaultRrfK,
      initial_top_k |-> tk[1], final_top_k |-> tk[2], use_reranking |-> ur] :
        st \in {"hybrid", "vector", "keyword"}, tk \in TopKPairs,
        ur \in BOOLEAN}

NoBuild == [results |-> <<>>, cache |-> EmptyMap, lookups |-> 0]

\* a list of SearchResult records as _vector_search builds them
VectorList(ids, raw) ==
    BuildResults(Rows(ids, raw, "vector"), "vector", 1, NoBuild).results

\* a list of SearchResult records as _keyword_search builds them
KeywordList(ids, raw) ==
    BuildResults(Rows(ids, raw, "keyword"), "keyword", 1, NoBuild).results

\* _current_run_id is None
NoRun == "none"

\* _current_config is None; a configuration c is held as <<c>>
NoConfig == <<>>

\* no tool is running
NoCall == [name |-> "none", config |-> NoConfig, with_config |-> FALSE,
           top_k |-> 0, queries |-> 0, done |-> 0, seen |-> EmptyMap]

\* no tool has returned
NoOutput == [kind |-> "none", lines |-> <<>>]

\* the retrieve calls that can be in flight on one RetrievalPipeline
Requests == {"r1", "r2"}

\* the source ids chunks can name
Sources == {SourceOf[c] : c \in Chunks}

\* a retrieve call that has not been made
NoRequest == [pc |-> "idle", vdone |-> FALSE, kdone |-> FALSE,
              vector_results |-> <<>>, keyword_results |-> <<>>,
              initial_results |-> <<>>, results |-> <<>>]

\* no executor job: nothing was dispatched for the call
NoWorker == [pc |-> "none", thread |-> "none", out |-> <<>>,
             overlapped |-> FALSE]

\* no query against the sources table since the cache was last empty
NoLookups == [s \in Sources |-> 0]

\* the RetrievalMiddleware instances of two agents
Middlewares == {"m1", "m2"}

\* RetrievalMiddleware.__init__ (_run_id None), and no tool call made
NoMiddleware == [run_id |-> [m \in Middlewares |-> NoRun],
                 caller |-> "none", for_run |-> NoRun, run_filter |-> NoRun]

\* no retrieve call in flight
ConcIdle ==
    /\ mw = NoMiddleware
    /\ rq = [r \in Requests |-> NoRequest]
    /\ worker = [r \in Requests |-> NoWorker]
    /\ lookup_log = NoLookups

\* the fields every specification starts from
InitCommon ==
    /\ ConcIdle
    /\ current_run_id = NoRun
    /\ current_config = NoConfig
    /\ tool_pc = "idle"
    /\ tool_call = NoCall
    /\ all_results = <<>>
    /\ tool_out = NoOutput
    /\ top_k_arg = 0
    /\ search_top_k = 0
    /\ vpc = "off"
    /\ kpc = "off"
    /\ retry = 0
    /\ retry_delay = initial_retry_delay
    /\ last_error = "none"
    /\ embed_result = <<>>
    /\ provider_calls = 0
    /\ sleeps = <<>>
    /\ vector_rpc = <<>>
    /\ keyword_rpc = <<>>
    /\ fused_results = <<>>
    /\ rrf_calls = 0
    /\ initial_results = <<>>
    /\ source_cache = EmptyMap
    /\ source_lookups = 0
    /\ reranker_built = FALSE
    /\ model_loads = 0
    /\ predicted = <<>>
    /\ predict_calls = 0
    /\ results = <<>>

----------------------------------------------------------------------------
(* EmbeddingClient.embed *)

ProviderVector == [dim |-> EmbeddingDim, zero |-> FALSE]

ZeroVector == [dim |-> EmbeddingDim, zero |-> TRUE]

\* [item.embedding for item in response.data]
ProviderEmbeddings(ts) == [i \in 1..Len(ts) |-> ProviderVector]

\* _fallback_embeddings
FallbackEmbeddings(ts) == [i \in 1..Len(ts) |-> ZeroVector]

\* whether the handler of a failed attempt retries
MayRetry(r) == r < max_retries - 1

\* value of a failed last attempt: "raised" or "returned"
LastAttemptOutcome(err) == IF err = "rate_limit" THEN "raised" ELSE "returned"

\* EmbedBegin without the early return on an empty list
EmbedBeginNoEarlyReturn ==
    /\ epc = "call"
    /\ epc' = "attempt"
    /\ retry' = 0
    /\ retry_delay' = initial_retry_delay
    /\ UNCHANGED embed_result
    /\ UNCHANGED <<texts, last_error, provider_calls, sleeps>>
    /\ UNCHANGED <<config, pc, top_k_arg, search_top_k, fused_results,
                   rrf_calls, initial_results, results>>
    /\ UNCHANGED searchVars
    /\ UNCHANGED rerankVars
    /\ UNCHANGED toolVars
    /\ UNCHANGED concVars

\* embed up to the first provider call
EmbedBegin ==
    /\ epc = "call"
    /\ IF texts = <<>>
       THEN /\ epc' = "returned"
            /\ embed_result' = <<>>
            /\ UNCHANGED <<retry, retry_delay>>
       ELSE /\ epc' = "attempt"
            /\ retry' = 0
            /\ retry_delay' = initial_retry_delay
            /\ UNCHANGED embed_result
    /\ UNCHANGED <<texts, last_error, provider_calls, sleeps>>
    /\ UNCHANGED <<config, pc, top_k_arg, search_top_k, fused_results,
                   rrf_calls, initial_results, results>>
    /\ UNCHANGED searchVars
    /\ UNCHANGED rerankVars
    /\ UNCHANGED toolVars
    /\ UNCHANGED concVars

\* openai.embeddings.create answers
EmbedAttemptOk ==
    /\ epc = "attempt"
    /\ provider_calls' = provider_calls + 1
    /\ embed_result' = ProviderEmbeddings(texts)
    /\ epc' = "returned"
    /\ UNCHANGED <<texts, retry, retry_delay, last_error, sleeps>>
    /\ UNCHANGED <<config, pc, top_k_arg, search_top_k, fused_results,
                   rrf_calls, initial_results, results>>
    /\ UNCHANGED searchVars
    /\ UNCHANGED rerankVars
    /\ UNCHANGED toolVars
    /\ UNCHANGED concVars

\* openai.embeddings.create raises err; the matching except clause runs
EmbedFailed(err) ==
    /\ epc = "attempt"
    /\ provider_calls' = provider_calls + 1
    /\ last_error' = err
    /\ IF MayRetry(retry)
       THEN /\ sleeps' = Append(sleeps, retry_delay)
            /\ epc' = "sleeping"
            /\ UNCHANGED embed_result
       ELSE /\ epc' = LastAttemptOutcome(err)
            /\ embed_result' = IF LastAttemptOutcome(err) = "returned"
                               THEN FallbackEmbeddings(texts)
                               ELSE embed_result
            /\ UNCHANGED sleeps
    /\ UNCHANGED <<texts, retry, retry_delay>>
    /\ UNCHANGED <<config, pc, top_k_arg, search_top_k, fused_results,
                   rrf_calls, initial_results, results>>
    /\ UNCHANGED searchVars
    /\ UNCHANGED rerankVars
    /\ UNCHANGED toolVars
    /\ UNCHANGED concVars

\* except openai.RateLimitError
EmbedAttemptRateLimited ==
    /\ epc = "attempt"
    /\ EmbedFailed("rate_limit")

\* except Exception
EmbedAttemptError ==
    /\ epc = "attempt"
    /\ EmbedFailed("error")

\* EmbedWake leaving retry_delay as it is
EmbedWakeSameDelay ==
    /\ epc = "sleeping"
    /\ kpc # "start"
    /\ ~(pc = "search" /\ kpc = "db_failed")
    /\ retry' = retry + 1
    /\ epc' = "attempt"
    /\ UNCHANGED <<texts, retry_delay, last_error, embed_result,
                   provider_calls, sleeps>>
    /\ UNCHANGED <<config, pc, top_k_arg, search_top_k, fused_results,
                   rrf_calls, initial_results, results>>
    /\ UNCHANGED searchVars
    /\ UNCHANGED rerankVars
    /\ UNCHANGED toolVars
    /\ UNCHANGED concVars

\* asyncio.sleep returns: retry_delay *= 2 and the next iteration starts.
\* A keyword task that is ready runs before the timer of the sleep expires.
EmbedWake ==
    /\ epc = "sleeping"
    /\ kpc # "start"
    /\ ~(pc = "search" /\ kpc = "db_failed")
    /\ retry_delay' = retry_delay * 2
    /\ retry' = retry + 1
    /\ epc' = "attempt"
    /\ UNCHANGED <<texts, last_error, embed_result, provider_calls, sleeps>>
    /\ UNCHANGED <<config, pc, top_k_arg, search_top_k, fused_results,
                   rrf_calls, initial_results, results>>
    /\ UNCHANGED searchVars
    /\ UNCHANGED rerankVars
    /\ UNCHANGED toolVars
    /\ UNCHANGED concVars

EmbedTexts == {"a", "b"}

InitEmbed ==
    /\ InitCommon
    /\ config \in {c \in FusionConfigs :
                      c.vector_weight = DefaultVectorWeight
                      /\ c.rrf_k = DefaultRrfK}
    /\ pc = "embed_call"
    /\ texts \in SeqsUpTo(EmbedTexts, MaxTexts)
    /\ epc = "call"
    /\ vector_results = <<>>
    /\ keyword_results = <<>>

NextEmbed ==
    \/ EmbedBegin
    \/ EmbedAttemptOk
    \/ EmbedAttemptRateLimited
    \/ EmbedAttemptError
    \/ EmbedWake

SpecEmbed == InitEmbed /\ [][NextEmbed]_vars

\* the event loop goes on running the coroutine: a step of embed that can be
\* taken is taken
SpecEmbedLive == SpecEmbed /\ WF_vars(NextEmbed)

----------------------------------------------------------------------------
(* A direct call of HybridSearcher._rrf_merge *)

InitFusion ==
    /\ InitCommon
    /\ config \in FusionConfigs
    /\ pc = "merge_call"
    /\ texts = <<>>
    /\ epc = "idle"
    /\ \E ids \in SeqsUpTo(Chunks, MaxLen), raw \in VectorSims :
          vector_results = VectorList(ids, raw)
    /\ \E ids \in SeqsUpTo(Chunks, MaxLen), raw \in KeywordRanks :
          keyword_results = KeywordList(ids, raw)

RrfMergeCall ==
    /\ pc = "merge_call"
    /\ \E tk \in MergeTopKs :
          /\ top_k_arg' = tk
          /\ fused_results' = RrfMerge(config, vector_results, keyword_results, tk)
    /\ rrf_calls' = rrf_calls + 1
    /\ pc' = "merge_done"
    /\ UNCHANGED <<config, search_top_k, initial_results, results>>
    /\ UNCHANGED embedVars
    /\ UNCHANGED searchVars
    /\ UNCHANGED rerankVars
    /\ UNCHANGED toolVars
    /\ UNCHANGED concVars

NextFusion == RrfMergeCall

SpecFusion == InitFusion /\ [][NextFusion]_vars

----------------------------------------------------------------------------
(* RetrievalPipeline.retrieve over HybridSearcher.search *)

\* top_k = top_k or self.config.final_top_k, in retrieve
EffectiveTopK(cfg, tk) == IF tk # 0 THEN tk ELSE cfg.final_top_k

\* the top_k retrieve hands to searcher.search
SearchArg(cfg, tk) ==
    IF cfg.use_reranking THEN cfg.initial_top_k ELSE EffectiveTopK(cfg, tk)

\* the top_k retrieve hands to rerank_async
RerankArg(cfg, tk) == EffectiveTopK(cfg, tk)

\* top_k = top_k or self.config.final_top_k, in search
SearchTopK(cfg, stk) == IF stk # 0 THEN stk ELSE cfg.final_top_k

\* MatchCount taking the top_k of the call in hybrid mode too
MatchCountTopK(cfg, stk) == SearchTopK(cfg, stk)

\* match_count search hands to a candidate source
MatchCount(cfg, stk) ==
    IF cfg.search_type = "hybrid" THEN cfg.initial_top_k
    ELSE SearchTopK(cfg, stk)

\* the sub-operations search starts for a search_type
RunsVector(cfg) == cfg.search_type # "keyword"

\* RunsKeyword starting the keyword sub-operation in every mode
RunsKeywordAlways(cfg) == TRUE

RunsKeyword(cfg) == cfg.search_type # "vector"

\* the list search returns once its sub-operations are done
SearchResultOf(cfg, vr, kr, stk) ==
    CASE cfg.search_type = "vector" -> vr
      [] cfg.search_type = "keyword" -> kr
      [] OTHER -> RrfMerge(cfg, vr, kr, SearchTopK(cfg, stk))

\* WillRerank without the early return on an empty candidate list
WillRerankAlways(cfg, rs) == cfg.use_reranking

\* if self.config.use_reranking and self.reranker, on a non-empty list
WillRerank(cfg, rs) == rs # <<>> /\ cfg.use_reranking

\* return initial_results[:top_k]
Truncated(cfg, rs, tk) == Slice(rs, EffectiveTopK(cfg, tk))

\* the Field(ge=..., le=...) constraints of RetrievalConfig, all it validates
RetrievalConfigAccepts(c) ==
    /\ c.search_type \in {"hybrid", "vector", "keyword"}
    /\ c.vector_weight \in 0..10
    /\ c.keyword_weight \in 0..10
    /\ c.rrf_k \in 1..100
    /\ c.initial_top_k \in 1..200
    /\ c.final_top_k \in 1..50
    /\ c.use_reranking \in BOOLEAN

Init ==
    /\ InitCommon
    /\ config \in {c \in PipelineConfigs : RetrievalConfigAccepts(c)}
    /\ pc = "idle"
    /\ texts = <<>>
    /\ epc = "idle"
    /\ vector_results = <<>>
    /\ keyword_results = <<>>

\* retrieve is called and enters searcher.search
Retrieve ==
    /\ pc = "idle"
    /\ \E tk \in TopKArgs :
          /\ top_k_arg' = tk
          /\ search_top_k' = SearchArg(config, tk)
    /\ pc' = "search"
    /\ vpc' = IF RunsVector(config) THEN "start" ELSE "off"
    /\ kpc' = IF RunsKeyword(config) THEN "start" ELSE "off"
    /\ UNCHANGED <<config, fused_results, rrf_calls, initial_results, results>>
    /\ UNCHANGED <<vector_rpc, keyword_rpc, vector_results, keyword_results,
                   source_cache, source_lookups>>
    /\ UNCHANGED embedVars
    /\ UNCHANGED rerankVars
    /\ UNCHANGED toolVars
    /\ UNCHANGED concVars

\* _vector_search starts: embed_single(query) calls embed([query])
VectorSearchStart ==
    /\ vpc = "start"
    /\ vpc' = "embedding"
    /\ texts' = <<"q">>
    /\ epc' = "call"
    /\ UNCHANGED <<retry, retry_delay, last_error, embed_result,
                   provider_calls, sleeps>>
    /\ UNCHANGED <<config, pc, top_k_arg, search_top_k, fused_results,
                   rrf_calls, initial_results, results>>
    /\ UNCHANGED <<kpc, vector_rpc, keyword_rpc, vector_results,
                   keyword_results, source_cache, source_lookups>>
    /\ UNCHANGED rerankVars
    /\ UNCHANGED toolVars
    /\ UNCHANGED concVars

\* embed returned (its locals are gone): match_chunks is queried and the
\* results are built
VectorQuery ==
    /\ vpc = "embedding"
    /\ epc = "returned"
    /\ LET mc == MatchCount(config, search_top_k)
       IN  /\ vector_rpc' = Append(vector_rpc, mc)
           /\ \E ids \in Answers(mc), raw \in VectorSims :
                 LET b == BuildResults(Rows(ids, raw, "vector"), "vector", 1,
                              [results |-> <<>>, cache |-> source_cache,
                               lookups |-> source_lookups])
                 IN  /\ vector_results' = b.results
                     /\ source_cache' = b.cache
                     /\ source_lookups' = b.lookups
    /\ vpc' = "done"
    /\ epc' = "idle"
    /\ retry' = 0
    /\ retry_delay' = initial_retry_delay
    /\ last_error' = "none"
    /\ UNCHANGED <<texts, embed_result, provider_calls, sleeps>>
    /\ UNCHANGED <<config, pc, top_k_arg, search_top_k, fused_results,
                   rrf_calls, initial_results, results>>
    /\ UNCHANGED <<kpc, keyword_rpc, keyword_results>>
    /\ UNCHANGED rerankVars
    /\ UNCHANGED toolVars
    /\ UNCHANGED concVars

\* embed raised: the exception leaves _vector_search, search and retrieve
VectorRaise ==
    /\ vpc = "embedding"
    /\ epc = "raised"
    /\ vpc' = "raised"
    /\ epc' = "idle"
    /\ pc' = "failed"
    /\ UNCHANGED <<texts, retry, retry_delay, last_error, embed_result,
                   provider_calls, sleeps>>
    /\ UNCHANGED <<config, top_k_arg, search_top_k, fused_results,
                   rrf_calls, initial_results, results>>
    /\ UNCHANGED <<kpc, vector_rpc, keyword_rpc, vector_results,
                   keyword_results, source_cache, source_lookups>>
    /\ UNCHANGED rerankVars
    /\ UNCHANGED toolVars
    /\ UNCHANGED concVars

\* the exception of rpc(...).execute() meets no handler and no second call:
\* the sub-search that made the call has failed
OnDatastoreErrorRetry == "start"

OnDatastoreError == "db_failed"

\* match_chunks raises: the exception leaves _vector_search
VectorQueryFails ==
    /\ vpc = "embedding"
    /\ epc = "returned"
    /\ vector_rpc' = Append(vector_rpc, MatchCount(config, search_top_k))
    /\ vpc' = OnDatastoreError
    /\ epc' = "idle"
    /\ retry' = 0
    /\ retry_delay' = initial_retry_delay
    /\ last_error' = "none"
    /\ UNCHANGED <<texts, embed_result, provider_calls, sleeps>>
    /\ UNCHANGED <<config, pc, top_k_arg, search_top_k, fused_results,
                   rrf_calls, initial_results, results>>
    /\ UNCHANGED <<kpc, keyword_rpc, vector_results, keyword_results,
                   source_cache, source_lookups>>
    /\ UNCHANGED rerankVars
    /\ UNCHANGED toolVars
    /\ UNCHANGED concVars

\* the keyword task gets the event loop: in hybrid mode it was created after
\* the vector task, so it first runs when the vector task is suspended in a
\* backoff sleep or has finished
KeywordTaskRuns ==
    /\ kpc = "start"
    /\ \/ vpc \in {"off", "done", "raised", "db_failed"}
       \/ vpc = "embedding" /\ epc = "sleeping"

\* search_chunks_keyword raises: the exception leaves _keyword_search
KeywordSearchFails ==
    /\ KeywordTaskRuns
    /\ keyword_rpc' = Append(keyword_rpc, MatchCount(config, search_top_k))
    /\ kpc' = OnDatastoreError
    /\ UNCHANGED <<config, pc, top_k_arg, search_top_k, fused_results,
                   rrf_calls, initial_results, results>>
    /\ UNCHANGED <<vpc, vector_rpc, vector_results, keyword_results,
                   source_cache, source_lookups>>
    /\ UNCHANGED embedVars
    /\ UNCHANGED rerankVars
    /\ UNCHANGED toolVars
    /\ UNCHANGED concVars

\* a sub-search has failed on its datastore call
DatastoreFailed == vpc = "db_failed" \/ kpc = "db_failed"

\* the exception of the failed sub-search reaches search (directly, or
\* through gather once the tasks that were ready have run) and leaves
\* search and retrieve.  gather does not cancel the other task.
SearchRaise ==
    /\ pc = "search"
    /\ DatastoreFailed
    /\ kpc # "start"
    /\ pc' = "failed"
    /\ UNCHANGED <<config, top_k_arg, search_top_k, fused_results,
                   rrf_calls, initial_results, results>>
    /\ UNCHANGED embedVars
    /\ UNCHANGED searchVars
    /\ UNCHANGED rerankVars
    /\ UNCHANGED toolVars
    /\ UNCHANGED concVars

\* a task of a cancelled search: CancelledError is thrown into it where it
\* is suspended, or it never starts
Cancelled(p) == IF p \in {"start", "embedding"} THEN "cancelled" ELSE p

\* the caller's context cancels the search while it is suspended: in gather
\* before its tasks have started, or in the backoff sleep of embed.
\* Cancelling gather cancels both tasks.
SearchCancel ==
    /\ pc = "search"
    /\ ~DatastoreFailed
    /\ \/ config.search_type = "hybrid" /\ vpc = "start"
       \/ vpc = "embedding" /\ epc = "sleeping" /\ kpc # "start"
    /\ pc' = "cancelled"
    /\ vpc' = Cancelled(vpc)
    /\ kpc' = Cancelled(kpc)
    /\ epc' = "idle"
    /\ retry' = 0
    /\ retry_delay' = initial_retry_delay
    /\ last_error' = "none"
    /\ UNCHANGED <<texts, embed_result, provider_calls, sleeps>>
    /\ UNCHANGED <<config, top_k_arg, search_top_k, fused_results,
                   rrf_calls, initial_results, results>>
    /\ UNCHANGED <<vector_rpc, keyword_rpc, vector_results, keyword_results,
                   source_cache, source_lookups>>
    /\ UNCHANGED rerankVars
    /\ UNCHANGED toolVars
    /\ UNCHANGED concVars

\* _keyword_search runs from its start to its return.  In hybrid mode its
\* task is created after the vector task, so it first runs when the vector
\* task is suspended in a backoff sleep or has finished.
KeywordSearch ==
    /\ KeywordTaskRuns
    /\ LET mc == MatchCount(config, search_top_k)
       IN  /\ keyword_rpc' = Append(keyword_rpc, mc)
           /\ \E ids \in Answers(mc), raw \in KeywordRanks :
                 LET b == BuildResults(Rows(ids, raw, "keyword"), "keyword", 1,
                              [results |-> <<>>, cache |-> source_cache,
                               lookups |-> source_lookups])
                 IN  /\ keyword_results' = b.results
                     /\ source_cache' = b.cache
                     /\ source_lookups' = b.lookups
    /\ kpc' = "done"
    /\ UNCHANGED <<config, pc, top_k_arg, search_top_k, fused_results,
                   rrf_calls, initial_results, results>>
    /\ UNCHANGED <<vpc, vector_rpc, vector_results>>
    /\ UNCHANGED embedVars
    /\ UNCHANGED rerankVars
    /\ UNCHANGED toolVars
    /\ UNCHANGED concVars

\* search returns (after fusion in hybrid mode); retrieve goes on up to its
\* return or up to the dispatch of rerank_async
SearchJoin ==
    /\ pc = "search"
    /\ vpc \in {"off", "done"}
    /\ kpc \in {"off", "done"}
    /\ LET found == SearchResultOf(config, vector_results, keyword_results,
                                   search_top_k)
       IN  /\ initial_results' = found
           /\ IF config.search_type = "hybrid"
              THEN /\ fused_results' = found
                   /\ rrf_calls' = rrf_calls + 1
              ELSE UNCHANGED <<fused_results, rrf_calls>>
           /\ IF WillRerank(config, found)
              THEN /\ reranker_built' = TRUE
                   /\ pc' = "reranking"
                   /\ UNCHANGED results
              ELSE /\ results' = Truncated(config, found, top_k_arg)
                   /\ pc' = "done"
                   /\ UNCHANGED reranker_built
    /\ UNCHANGED <<config, top_k_arg, search_top_k>>
    /\ UNCHANGED <<model_loads, predicted, predict_calls>>
    /\ UNCHANGED embedVars
    /\ UNCHANGED searchVars
    /\ UNCHANGED toolVars
    /\ UNCHANGED concVars

\* RerankRun without the early return on an empty list
RerankRunNoEarlyReturn ==
    /\ pc = "reranking"
    /\ \E m \in Models :
          /\ model_loads' = IF model_loads = 0 THEN 1 ELSE model_loads
          /\ predict_calls' = predict_calls + 1
          /\ predicted' = Predict(m, initial_results)
          /\ results' = Rerank(config, initial_results,
                               Predict(m, initial_results),
                               RerankArg(config, top_k_arg))
    /\ pc' = "reranked"
    /\ UNCHANGED <<config, top_k_arg, search_top_k, fused_results, rrf_calls,
                   initial_results, reranker_built>>
    /\ UNCHANGED embedVars
    /\ UNCHANGED searchVars
    /\ UNCHANGED toolVars
    /\ UNCHANGED concVars

\* Reranker.rerank runs in the executor thread
RerankRun ==
    /\ pc = "reranking"
    /\ IF initial_results = <<>>
       THEN /\ results' = <<>>
            /\ UNCHANGED <<model_loads, predicted, predict_calls>>
       ELSE \E m \in Models :
               /\ model_loads' = IF model_loads = 0 THEN 1 ELSE model_loads
               /\ predict_calls' = predict_calls + 1
               /\ predicted' = Predict(m, initial_results)
               /\ results' = Rerank(config, initial_results,
                                    Predict(m, initial_results),
                                    RerankArg(config, top_k_arg))
    /\ pc' = "reranked"
    /\ UNCHANGED <<config, top_k_arg, search_top_k, fused_results, rrf_calls,
                   initial_results, reranker_built>>
    /\ UNCHANGED embedVars
    /\ UNCHANGED searchVars
    /\ UNCHANGED toolVars
    /\ UNCHANGED concVars

\* the future of run_in_executor is done: retrieve returns the reranked list
RetrieveReturn ==
    /\ pc = "reranked"
    /\ pc' = "done"
    /\ UNCHANGED <<config, top_k_arg, search_top_k, fused_results, rrf_calls,
                   initial_results, results>>
    /\ UNCHANGED embedVars
    /\ UNCHANGED searchVars
    /\ UNCHANGED rerankVars
    /\ UNCHANGED toolVars
    /\ UNCHANGED concVars

Next ==
    \/ Retrieve
    \/ VectorSearchStart
    \/ EmbedBegin
    \/ EmbedAttemptOk
    \/ EmbedAttemptRateLimited
    \/ EmbedAttemptError
    \/ EmbedWake
    \/ VectorQuery
    \/ VectorRaise
    \/ VectorQueryFails
    \/ KeywordSearch
    \/ KeywordSearchFails
    \/ SearchRaise
    \/ SearchCancel
    \/ SearchJoin
    \/ RerankRun
    \/ RetrieveReturn

Spec == Init /\ [][Next]_vars

----------------------------------------------------------------------------
(* The retrieval tools over the module-level run context *)

RunIds == {"run1", "run2"}

\* RetrievalConfig()
DefaultConfig ==
    [search_type |-> "hybrid", vector_weight |-> DefaultVectorWeight,
     keyword_weight |-> DefaultKeywordWeight, rrf_k |-> DefaultRrfK,
     initial_top_k |-> 50, final_top_k |-> 10, use_reranking |-> TRUE]

\* configurations a RetrievalMiddleware is built with; without one it takes
\* RetrievalConfig()
MiddlewareConfigs ==
    {DefaultConfig} \cup {c \in PipelineConfigs : c.initial_top_k = 1}

\* configurations of the context multi_query_search_tool is checked under
MultiConfigs ==
    {c \in PipelineConfigs : c.initial_top_k = 1 /\ c.use_reranking}

\* config.model_dump() if config else {}
ModelDump(cfg) == IF cfg = NoConfig THEN EmptyMap ELSE cfg[1]

\* f(**dump, name=value): a keyword that dump already holds is passed twice,
\* which is a TypeError at the call
DuplicateKeywords(dump, over) == (DOMAIN dump) \cap (DOMAIN over) # {}

\* RetrievalConfig(**kwargs): a field that is not passed takes its default
RetrievalConfigOf(kwargs) ==
    [f \in DOMAIN DefaultConfig |->
        IF f \in DOMAIN kwargs THEN kwargs[f] ELSE DefaultConfig[f]]

\* HybridSearcher(config): self.config = config or RetrievalConfig()
SearcherConfig(cfg) == IF cfg = NoConfig THEN DefaultConfig ELSE cfg[1]

\* one entry of format_search_results: chunk id, source title, the location
\* line when page_start is truthy, the section line when section_hint is
\* truthy, the content (the score line, rounded to four decimals, is left out)
FormatResult(r) ==
    [chunk_id |-> r.chunk_id,
     source |-> r.source_title,
     location |-> IF r.page_start # 0 THEN r.page_start ELSE 0,
     section |-> IF r.section_hint # "none" THEN r.section_hint ELSE "",
     content |-> r.content]

\* format_search_results
FormatSearchResults(rs) ==
    IF rs = <<>>
    THEN [kind |-> "no_results", lines |-> <<>>]
    ELSE [kind |-> "found",
          lines |-> [i \in 1..Len(rs) |-> FormatResult(rs[i])]]

\* "Error: No active run. Please create a run first."
ErrorNoRun == [kind |-> "error_no_run", lines |-> <<>>]

\* "Error: No queries provided"
ErrorNoQueries == [kind |-> "error_no_queries", lines |-> <<>>]

\* "Error performing search: ..."
ErrorSearch == [kind |-> "error_search", lines |-> <<>>]

\* the lists searcher.search(query, run_id, top_k) can return under cfg
SearchOutcomes(cfg, tk) ==
    LET mc == MatchCount(cfg, tk)
    IN  CASE cfg.search_type = "vector" ->
                {VectorList(ids, raw) : ids \in Answers(mc), raw \in VectorSims}
          [] cfg.search_type = "keyword" ->
                {KeywordList(ids, raw) :
                    ids \in Answers(mc), raw \in KeywordRanks}
          [] OTHER ->
                {SearchResultOf(cfg, VectorList(vi, vraw),
                                KeywordList(ki, kraw), tk) :
                    vi \in Answers(mc), vraw \in VectorSims,
                    ki \in Answers(mc), kraw \in KeywordRanks}

\* set_retrieval_context
SetRetrievalContext(run_id, cfg) ==
    /\ current_run_id' = run_id
    /\ current_config' = cfg
    /\ UNCHANGED <<tool_pc, tool_call, all_results, tool_out>>
    /\ UNCHANGED pipelineVars
    /\ UNCHANGED embedVars
    /\ UNCHANGED searchVars
    /\ UNCHANGED rerankVars

\* RetrievalMiddleware.set_run: the context gets the middleware's config
SetRun ==
    /\ tool_pc # "searching"
    /\ \E r \in RunIds, c \in MiddlewareConfigs :
          SetRetrievalContext(r, <<c>>)
    /\ UNCHANGED concVars

\* set_retrieval_context(run_id), its config left at None
SetContextWithoutConfig ==
    /\ tool_pc # "searching"
    /\ \E r \in RunIds :
          SetRetrievalContext(r, NoConfig)
    /\ UNCHANGED concVars

\* a tool that searches under RetrievalConfig(**dump, search_type=...) is
\* called: it reads the context, builds the configuration and enters search
ToolBegin(name, over) ==
    /\ tool_pc # "searching"
    /\ all_results' = <<>>
    /\ \E tk \in MergeTopKs :
          LET dump == ModelDump(current_config)
              call == [name |-> name, config |-> NoConfig,
                       with_config |-> current_config # NoConfig,
                       top_k |-> tk, queries |-> 1, done |-> 0,
                       seen |-> EmptyMap]
          IN  IF current_run_id = NoRun
              THEN /\ tool_out' = ErrorNoRun
                   /\ tool_pc' = "returned"
                   /\ tool_call' = call
              ELSE IF DuplicateKeywords(dump, over)
              THEN /\ tool_out' = ErrorSearch
                   /\ tool_pc' = "returned"
                   /\ tool_call' = call
              ELSE /\ tool_out' = NoOutput
                   /\ tool_pc' = "searching"
                   /\ tool_call' =
                          [call EXCEPT
                              !.config = <<RetrievalConfigOf(over @@ dump)>>]
    /\ UNCHANGED <<current_run_id, current_config>>
    /\ UNCHANGED pipelineVars
    /\ UNCHANGED concVars
    /\ UNCHANGED embedVars
    /\ UNCHANGED searchVars
    /\ UNCHANGED rerankVars

semantic_search_tool ==
    /\ tool_pc # "searching"
    /\ ToolBegin("semantic", [search_type |-> "vector"])

keyword_search_tool ==
    /\ tool_pc # "searching"
    /\ ToolBegin("keyword", [search_type |-> "keyword"])

\* searcher.search returned to semantic_search_tool or keyword_search_tool
ToolSearchReturns ==
    /\ tool_pc = "searching"
    /\ tool_call.name \in {"semantic", "keyword"}
    /\ \E found \in SearchOutcomes(tool_call.config[1], tool_call.top_k) :
          tool_out' = FormatSearchResults(found)
    /\ tool_pc' = "returned"
    /\ UNCHANGED <<current_run_id, current_config, tool_call, all_results>>
    /\ UNCHANGED pipelineVars
    /\ UNCHANGED concVars
    /\ UNCHANGED embedVars
    /\ UNCHANGED searchVars
    /\ UNCHANGED rerankVars

\* searcher.search raised (embedding rate limit, datastore failure): the
\* except Exception clause of the tool returns the error string
ToolSearchRaises ==
    /\ tool_pc = "searching"
    /\ tool_out' = ErrorSearch
    /\ tool_pc' = "returned"
    /\ UNCHANGED <<current_run_id, current_config, tool_call, all_results>>
    /\ UNCHANGED pipelineVars
    /\ UNCHANGED concVars
    /\ UNCHANGED embedVars
    /\ UNCHANGED searchVars
    /\ UNCHANGED rerankVars

\* AddResult letting a later occurrence with a higher score replace the entry
AddResultHighest(all, r) ==
    IF \E i \in 1..Len(all) : all[i].chunk_id = r.chunk_id
    THEN [i \in 1..Len(all) |->
             IF all[i].chunk_id = r.chunk_id /\ r.score > all[i].score
             THEN r ELSE all[i]]
    ELSE Append(all, r)

\* if result.chunk_id not in all_results: all_results[result.chunk_id] = result
AddResult(all, r) ==
    IF \E i \in 1..Len(all) : all[i].chunk_id = r.chunk_id
    THEN all
    ELSE Append(all, r)

RECURSIVE Occurrences(_, _, _)
\* per chunk_id, the first record search returned for it and the highest
\* score among all records search returned for it
Occurrences(seen, found, i) ==
    IF i > Len(found) THEN seen
    ELSE LET r == found[i]
             cid == r.chunk_id
             entry == IF cid \in DOMAIN seen
                      THEN [seen[cid] EXCEPT
                               !.highest = IF r.score > @ THEN r.score ELSE @]
                      ELSE [first |-> r, highest |-> r.score]
         IN  Occurrences(Put(seen, cid, entry), found, i + 1)

RECURSIVE AddResults(_, _, _)
\* for result in results, from index i on
AddResults(all, found, i) ==
    IF i > Len(found) THEN all
    ELSE AddResults(AddResult(all, found[i]), found, i + 1)

\* sorted(all_results.values(), key=lambda x: x.score, reverse=True)
SortedByScore(all) ==
    LET perm == SortedIdx([i \in 1..Len(all) |-> all[i].score], Len(all))
    IN  [i \in 1..Len(perm) |-> all[perm[i]]]

\* multi_query_search_tool is called and enters its first search
multi_query_search_tool ==
    /\ tool_pc # "searching"
    /\ all_results' = <<>>
    /\ \E n \in 0..MaxQueries, tk \in MergeTopKs :
          LET call == [name |-> "multi", config |-> NoConfig,
                       with_config |-> current_config # NoConfig,
                       top_k |-> tk, queries |-> n, done |-> 0,
                       seen |-> EmptyMap]
          IN  IF current_run_id = NoRun
              THEN /\ tool_out' = ErrorNoRun
                   /\ tool_pc' = "returned"
                   /\ tool_call' = call
              ELSE IF n = 0
              THEN /\ tool_out' = ErrorNoQueries
                   /\ tool_pc' = "returned"
                   /\ tool_call' = call
              ELSE /\ tool_out' = NoOutput
                   /\ tool_pc' = "searching"
                   /\ tool_call' =
                          [call EXCEPT
                              !.config = <<SearcherConfig(current_config)>>]
    /\ UNCHANGED <<current_run_id, current_config>>
    /\ UNCHANGED pipelineVars
    /\ UNCHANGED concVars
    /\ UNCHANGED embedVars
    /\ UNCHANGED searchVars
    /\ UNCHANGED rerankVars

\* searcher.search returned for the next query: its records enter
\* all_results; after the last query the tool sorts, formats and returns
MultiQuerySearchReturns ==
    /\ tool_pc = "searching"
    /\ tool_call.name = "multi"
    /\ \E found \in SearchOutcomes(tool_call.config[1], tool_call.top_k) :
          LET all == AddResults(all_results, found, 1)
              last == tool_call.done + 1 = tool_call.queries
          IN  /\ all_results' = all
              /\ tool_call' = [tool_call EXCEPT !.done = @ + 1,
                                                !.seen =
                                                    Occurrences(@, found, 1)]
              /\ tool_pc' = IF last THEN "returned" ELSE "searching"
              /\ tool_out' = IF last
                             THEN FormatSearchResults(SortedByScore(all))
                             ELSE tool_out
    /\ UNCHANGED <<current_run_id, current_config>>
    /\ UNCHANGED pipelineVars
    /\ UNCHANGED concVars
    /\ UNCHANGED embedVars
    /\ UNCHANGED searchVars
    /\ UNCHANGED rerankVars

\* the pipeline fields while only the tools run
PipelineIdle ==
    /\ ConcIdle
    /\ config = DefaultConfig
    /\ pc = "idle"
    /\ texts = <<>>
    /\ epc = "idle"
    /\ vector_results = <<>>
    /\ keyword_results = <<>>
    /\ top_k_arg = 0
    /\ search_top_k = 0
    /\ vpc = "off"
    /\ kpc = "off"
    /\ retry = 0
    /\ retry_delay = initial_retry_delay
    /\ last_error = "none"
    /\ embed_result = <<>>
    /\ provider_calls = 0
    /\ sleeps = <<>>
    /\ vector_rpc = <<>>
    /\ keyword_rpc = <<>>
    /\ fused_results = <<>>
    /\ rrf_calls = 0
    /\ initial_results = <<>>
    /\ source_cache = EmptyMap
    /\ source_lookups = 0
    /\ reranker_built = FALSE
    /\ model_loads = 0
    /\ predicted = <<>>
    /\ predict_calls = 0
    /\ results = <<>>

\* the module has been imported: no run context yet
InitTools ==
    /\ InitCommon
    /\ config = DefaultConfig
    /\ pc = "idle"
    /\ texts = <<>>
    /\ epc = "idle"
    /\ vector_results = <<>>
    /\ keyword_results = <<>>

NextTools ==
    \/ SetRun
    \/ SetContextWithoutConfig
    \/ semantic_search_tool
    \/ keyword_search_tool
    \/ ToolSearchReturns
    \/ ToolSearchRaises

SpecTools == InitTools /\ [][NextTools]_vars

\* a middleware has set the run context, or nothing has
InitMulti ==
    /\ PipelineIdle
    /\ current_run_id \in RunIds \cup {NoRun}
    /\ current_config \in
           IF current_run_id = NoRun THEN {NoConfig}
           ELSE {<<c>> : c \in MultiConfigs}
    /\ tool_pc = "idle"
    /\ tool_call = NoCall
    /\ all_results = <<>>
    /\ tool_out = NoOutput

NextMulti ==
    \/ multi_query_search_tool
    \/ MultiQuerySearchReturns
    \/ ToolSearchRaises

SpecMulti == InitMulti /\ [][NextMulti]_vars

----------------------------------------------------------------------------
(* A direct call of Reranker.rerank on a fresh Reranker *)

\* lists of SearchResult records a caller hands to rerank
CandidateLists ==
    {VectorList(ids, raw) : ids \in SeqsUpTo(Chunks, MaxLen), raw \in VectorSims}
    \cup
    {KeywordList(ids, raw) :
        ids \in SeqsUpTo(Chunks, MaxLen), raw \in KeywordRanks}

\* rerank(query, results, top_k) is entered; the model has not been loaded
InitRerank ==
    /\ InitCommon
    /\ config \in {c \in PipelineConfigs : c.use_reranking}
    /\ pc = "rerank_call"
    /\ texts = <<>>
    /\ epc = "idle"
    /\ vector_results = <<>>
    /\ keyword_results = <<>>

\* the arguments of the call
RerankCall ==
    /\ pc = "rerank_call"
    /\ \E rs \in CandidateLists, tk \in TopKArgs :
          /\ initial_results' = rs
          /\ top_k_arg' = tk
    /\ pc' = "reranking"
    /\ UNCHANGED <<config, search_top_k, fused_results, rrf_calls, results>>
    /\ UNCHANGED embedVars
    /\ UNCHANGED searchVars
    /\ UNCHANGED rerankVars
    /\ UNCHANGED toolVars
    /\ UNCHANGED concVars

NextRerank ==
    \/ RerankCall
    \/ RerankRun

SpecRerank == InitRerank /\ [][NextRerank]_vars

----------------------------------------------------------------------------
(* storage.vector.HybridSearch._rrf_fusion, and direct calls of the three *)
(* operations that take result records                                    *)

\* index of the record result_map holds for cid after the first loop: the
\* last record of the vector list with that chunk_id, 0 if there is none
VectorOwner(vr, cid) ==
    LET at == {i \in 1..Len(vr) : vr[i].chunk_id = cid}
    IN  IF at = {} THEN 0 ELSE CHOOSE i \in at : \A j \in at : j <= i

\* index of the record the second loop puts into result_map for cid: the
\* first record of the keyword list with that chunk_id, when the vector list
\* has none; 0 otherwise
KeywordOwner(vr, kr, cid) ==
    LET at == {i \in 1..Len(kr) : kr[i].chunk_id = cid}
    IN  IF at = {} \/ VectorOwner(vr, cid) # 0 THEN 0
        ELSE CHOOSE i \in at : \A j \in at : i <= j

\* result.score = scores[chunk_id]; result.search_type = "hybrid"
UpdatedInPlace(result, score) ==
    [result EXCEPT !.score = score, !.search_type = "hybrid"]

\* _rrf_fusion: the list it returns and its two argument lists after the
\* call.  The records it returns are the objects of result_map, which are
\* elements of the argument lists.
RrfFusion(cfg, vr, kr, top_k) ==
    LET acc == RrfScores(cfg, vr, kr)
        kept == Slice(SortedIds(acc), top_k)
        keptIds == {kept[i] : i \in 1..Len(kept)}
    IN  [results |->
            [i \in 1..Len(kept) |->
                UpdatedInPlace(acc.result_map[kept[i]], acc.scores[kept[i]])],
         vector_results |->
            [i \in 1..Len(vr) |->
                IF vr[i].chunk_id \in keptIds
                   /\ VectorOwner(vr, vr[i].chunk_id) = i
                THEN UpdatedInPlace(vr[i], acc.scores[vr[i].chunk_id])
                ELSE vr[i]],
         keyword_results |->
            [i \in 1..Len(kr) |->
                IF kr[i].chunk_id \in keptIds
                   /\ KeywordOwner(vr, kr, kr[i].chunk_id) = i
                THEN UpdatedInPlace(kr[i], acc.scores[kr[i].chunk_id])
                ELSE kr[i]]]

\* a caller holds two candidate lists, or is about to call rerank
InitRecords ==
    /\ InitCommon
    /\ config \in {c \in FusionConfigs :
                      c.vector_weight = DefaultVectorWeight}
    /\ pc \in {"merge_call", "fusion_call", "rerank_call"}
    /\ texts = <<>>
    /\ epc = "idle"
    /\ \E ids \in SeqsUpTo(Chunks, MaxLen), raw \in VectorSims :
          vector_results =
              IF pc = "rerank_call" THEN <<>> ELSE VectorList(ids, raw)
    /\ \E ids \in SeqsUpTo(Chunks, MaxLen), raw \in KeywordRanks :
          keyword_results =
              IF pc = "rerank_call" THEN <<>> ELSE KeywordList(ids, raw)

\* HybridSearch._rrf_fusion(vector_results, keyword_results, top_k)
RrfFusionCall ==
    /\ pc = "fusion_call"
    /\ \E tk \in MergeTopKs :
          LET f == RrfFusion(config, vector_results, keyword_results, tk)
          IN  /\ top_k_arg' = tk
              /\ fused_results' = f.results
              /\ vector_results' = f.vector_results
              /\ keyword_results' = f.keyword_results
    /\ pc' = "fusion_done"
    /\ UNCHANGED <<config, search_top_k, rrf_calls, initial_results, results>>
    /\ UNCHANGED <<vpc, kpc, vector_rpc, keyword_rpc, source_cache,
                   source_lookups>>
    /\ UNCHANGED embedVars
    /\ UNCHANGED rerankVars
    /\ UNCHANGED toolVars
    /\ UNCHANGED concVars

NextRecords ==
    \/ RrfMergeCall
    \/ RrfFusionCall
    \/ RerankCall
    \/ RerankRun

SpecRecords == InitRecords /\ [][NextRecords]_vars

----------------------------------------------------------------------------
(* Concurrent retrieve calls on one RetrievalPipeline: one HybridSearcher
   with its source cache, one Reranker with its lazily loaded model, one
   event loop, and the threads of the loop's default executor *)

\* the configurations of the shared pipeline: hybrid, one row per source
ConcConfigs ==
    {c \in PipelineConfigs : c.search_type = "hybrid" /\ c.initial_top_k = 1}

\* the positions of Reranker.rerank in which it is scoring
ScoringSteps == {"check", "load", "predict"}

\* rerank run by the coroutine itself, on the thread of the event loop
RerankThreadLoop == "loop"

\* run_in_executor(None, ...): a thread of the default ThreadPoolExecutor
RerankThread == "executor"

\* the thread of the event loop is not inside a synchronous call, so the
\* loop can run a step of a coroutine
LoopFree ==
    \A r \in Requests :
        ~(worker[r].thread = "loop" /\ worker[r].pc \in ScoringSteps)

\* the executor jobs after a step of call r on the loop: a job of another
\* call that is scoring has seen the loop run meanwhile
Overlap(r) ==
    [o \in Requests |->
        IF o # r /\ worker[o].pc \in ScoringSteps
        THEN [worker[o] EXCEPT !.overlapped = TRUE]
        ELSE worker[o]]

RECURSIVE SourceQueries(_, _, _, _)
\* the queries against the sources table that the loop over rows issues,
\* added per source_id to log
SourceQueries(rows, i, cache, log) ==
    IF i > Len(rows) THEN log
    ELSE LET sid == rows[i].source_id
             g == GetSourceInfo(sid, cache, 0)
         IN  SourceQueries(rows, i + 1, g.cache,
                 IF g.lookups = 1 THEN [log EXCEPT ![sid] = @ + 1] ELSE log)

InitConc ==
    /\ InitCommon
    /\ config \in ConcConfigs
    /\ pc = "concurrent"
    /\ texts = <<>>
    /\ epc = "idle"
    /\ vector_results = <<>>
    /\ keyword_results = <<>>

\* retrieve is called and runs up to the gather of search
ConcRetrieve(r) ==
    /\ LoopFree
    /\ rq[r].pc = "idle"
    /\ rq' = [rq EXCEPT ![r].pc = "search"]
    /\ UNCHANGED <<worker, lookup_log, mw>>
    /\ UNCHANGED pipelineVars
    /\ UNCHANGED embedVars
    /\ UNCHANGED searchVars
    /\ UNCHANGED rerankVars
    /\ UNCHANGED toolVars

\* the _vector_search task of call r, once embed has returned the query
\* vector: match_chunks is queried and the results are built
ConcVector(r) ==
    /\ LoopFree
    /\ rq[r].pc = "search"
    /\ ~rq[r].vdone
    /\ LET mc == MatchCount(config, SearchArg(config, 0))
       IN  /\ vector_rpc' = Append(vector_rpc, mc)
           /\ \E ids \in Answers(mc), raw \in VectorSims :
                 LET rows == Rows(ids, raw, "vector")
                     b == BuildResults(rows, "vector", 1,
                              [results |-> <<>>, cache |-> source_cache,
                               lookups |-> source_lookups])
                 IN  /\ rq' = [rq EXCEPT ![r].vdone = TRUE,
                                         ![r].vector_results = b.results]
                     /\ source_cache' = b.cache
                     /\ source_lookups' = b.lookups
                     /\ lookup_log' =
                            SourceQueries(rows, 1, source_cache, lookup_log)
    /\ worker' = Overlap(r)
    /\ UNCHANGED mw
    /\ UNCHANGED <<vpc, kpc, keyword_rpc, vector_results, keyword_results>>
    /\ UNCHANGED pipelineVars
    /\ UNCHANGED embedVars
    /\ UNCHANGED rerankVars
    /\ UNCHANGED toolVars

\* the _keyword_search task of call r
ConcKeyword(r) ==
    /\ LoopFree
    /\ rq[r].pc = "search"
    /\ ~rq[r].kdone
    /\ LET mc == MatchCount(config, SearchArg(config, 0))
       IN  /\ keyword_rpc' = Append(keyword_rpc, mc)
           /\ \E ids \in Answers(mc), raw \in KeywordRanks :
                 LET rows == Rows(ids, raw, "keyword")
                     b == BuildResults(rows, "keyword", 1,
                              [results |-> <<>>, cache |-> source_cache,
                               lookups |-> source_lookups])
                 IN  /\ rq' = [rq EXCEPT ![r].kdone = TRUE,
                                         ![r].keyword_results = b.results]
                     /\ source_cache' = b.cache
                     /\ source_lookups' = b.lookups
                     /\ lookup_log' =
                            SourceQueries(rows, 1, source_cache, lookup_log)
    /\ worker' = Overlap(r)
    /\ UNCHANGED mw
    /\ UNCHANGED <<vpc, kpc, vector_rpc, vector_results, keyword_results>>
    /\ UNCHANGED pipelineVars
    /\ UNCHANGED embedVars
    /\ UNCHANGED rerankVars
    /\ UNCHANGED toolVars

\* gather returns to search, which fuses and returns; retrieve goes on up
\* to its return or up to run_in_executor in rerank_async
ConcJoin(r) ==
    /\ LoopFree
    /\ rq[r].pc = "search"
    /\ rq[r].vdone
    /\ rq[r].kdone
    /\ LET found == SearchResultOf(config, rq[r].vector_results,
                                   rq[r].keyword_results,
                                   SearchArg(config, 0))
       IN  IF WillRerank(config, found)
           THEN /\ rq' = [rq EXCEPT ![r].pc = "reranking",
                                    ![r].vector_results = <<>>,
                                    ![r].keyword_results = <<>>,
                                    ![r].initial_results = found]
                /\ worker' = [worker EXCEPT
                                 ![r] = [pc |-> "check",
                                         thread |-> RerankThread,
                                         out |-> <<>>,
                                         overlapped |-> FALSE]]
                /\ reranker_built' = TRUE
           ELSE /\ rq' = [rq EXCEPT ![r].pc = "done",
                                    ![r].vector_results = <<>>,
                                    ![r].keyword_results = <<>>,
                                    ![r].initial_results = found,
                                    ![r].results =
                                        Truncated(config, found, 0)]
                /\ UNCHANGED <<worker, reranker_built>>
    /\ UNCHANGED <<model_loads, predicted, predict_calls, lookup_log, mw>>
    /\ UNCHANGED pipelineVars
    /\ UNCHANGED embedVars
    /\ UNCHANGED searchVars
    /\ UNCHANGED toolVars

\* the job of call r reads the model property: if self._model is None
WorkerCheck(r) ==
    /\ worker[r].pc = "check"
    /\ worker' = [worker EXCEPT
                     ![r].pc = IF model_loads = 0 THEN "load" ELSE "predict"]
    /\ UNCHANGED <<rq, lookup_log, mw>>
    /\ UNCHANGED pipelineVars
    /\ UNCHANGED embedVars
    /\ UNCHANGED searchVars
    /\ UNCHANGED rerankVars
    /\ UNCHANGED toolVars

\* self._model = CrossEncoder(self.model_name), in the job of call r
WorkerLoad(r) ==
    /\ worker[r].pc = "load"
    /\ model_loads' = model_loads + 1
    /\ worker' = [worker EXCEPT ![r].pc = "predict"]
    /\ UNCHANGED <<reranker_built, predicted, predict_calls>>
    /\ UNCHANGED <<rq, lookup_log, mw>>
    /\ UNCHANGED pipelineVars
    /\ UNCHANGED embedVars
    /\ UNCHANGED searchVars
    /\ UNCHANGED toolVars

\* model.predict and the rest of rerank, in the job of call r
WorkerPredict(r) ==
    /\ worker[r].pc = "predict"
    /\ \E m \in Models :
          LET scores == Predict(m, rq[r].initial_results)
          IN  /\ predicted' = scores
              /\ worker' = [worker EXCEPT
                               ![r].pc = "finished",
                               ![r].out = Rerank(config,
                                              rq[r].initial_results, scores,
                                              RerankArg(config, 0))]
    /\ predict_calls' = predict_calls + 1
    /\ UNCHANGED <<reranker_built, model_loads>>
    /\ UNCHANGED <<rq, lookup_log, mw>>
    /\ UNCHANGED pipelineVars
    /\ UNCHANGED embedVars
    /\ UNCHANGED searchVars
    /\ UNCHANGED toolVars

\* the future of run_in_executor is done: rerank_async and retrieve return
ConcResume(r) ==
    /\ LoopFree
    /\ rq[r].pc = "reranking"
    /\ worker[r].pc = "finished"
    /\ rq' = [rq EXCEPT ![r].pc = "done", ![r].results = worker[r].out]
    /\ UNCHANGED <<worker, lookup_log, mw>>
    /\ UNCHANGED pipelineVars
    /\ UNCHANGED embedVars
    /\ UNCHANGED searchVars
    /\ UNCHANGED rerankVars
    /\ UNCHANGED toolVars

\* HybridSearcher.clear_cache, called between two steps of the loop
ClearCache ==
    /\ LoopFree
    /\ source_cache # EmptyMap \/ lookup_log # NoLookups
    /\ source_cache' = EmptyMap
    /\ lookup_log' = NoLookups
    /\ UNCHANGED <<vpc, kpc, vector_rpc, keyword_rpc, vector_results,
                   keyword_results, source_lookups>>
    /\ UNCHANGED <<rq, worker, mw>>
    /\ UNCHANGED pipelineVars
    /\ UNCHANGED embedVars
    /\ UNCHANGED rerankVars
    /\ UNCHANGED toolVars

NextConc ==
    \/ \E r \in Requests : ConcRetrieve(r)
    \/ \E r \in Requests : ConcVector(r)
    \/ \E r \in Requests : ConcKeyword(r)
    \/ \E r \in Requests : ConcJoin(r)
    \/ \E r \in Requests : WorkerCheck(r)
    \/ \E r \in Requests : WorkerLoad(r)
    \/ \E r \in Requests : WorkerPredict(r)
    \/ \E r \in Requests : ConcResume(r)
    \/ ClearCache

SpecConc == InitConc /\ [][NextConc]_vars

----------------------------------------------------------------------------
(* Two agents, each with its RetrievalMiddleware, in one process: the tools
   read the run context from the module's globals *)

\* the run each agent works on
RunOf == [m \in Middlewares |-> IF m = "m1" THEN "run1" ELSE "run2"]

\* the configuration each middleware was built with
MwConfig ==
    [m \in Middlewares |->
        IF m = "m1" THEN DefaultConfig
        ELSE CHOOSE c \in MiddlewareConfigs :
                 /\ c.search_type = "keyword"
                 /\ ~c.use_reranking
                 /\ c.final_top_k = 2]

\* RetrievalMiddleware.set_run of instance m
MwSetRun(m) ==
    /\ mw' = [mw EXCEPT !.run_id[m] = RunOf[m]]
    /\ SetRetrievalContext(RunOf[m], <<MwConfig[m]>>)
    /\ UNCHANGED <<rq, worker, lookup_log>>

\* RetrievalMiddleware.reset of instance m
MwReset(m) ==
    /\ mw.run_id[m] # NoRun
    /\ mw' = [mw EXCEPT !.run_id[m] = NoRun]
    /\ UNCHANGED toolVars
    /\ UNCHANGED <<rq, worker, lookup_log>>
    /\ UNCHANGED pipelineVars
    /\ UNCHANGED embedVars
    /\ UNCHANGED searchVars
    /\ UNCHANGED rerankVars

\* hybrid_search_tool, called by the agent of middleware m: it reads the
\* context, builds HybridSearcher(config) and enters search with run_id
MwHybridSearch(m) ==
    /\ tool_pc # "searching"
    /\ all_results' = <<>>
    /\ mw' = [mw EXCEPT !.caller = m, !.for_run = mw.run_id[m],
                        !.run_filter = current_run_id]
    /\ \E tk \in MergeTopKs :
          LET call == [name |-> "hybrid", config |-> NoConfig,
                       with_config |-> current_config # NoConfig,
                       top_k |-> tk, queries |-> 1, done |-> 0,
                       seen |-> EmptyMap]
          IN  IF current_run_id = NoRun
              THEN /\ tool_out' = ErrorNoRun
                   /\ tool_pc' = "returned"
                   /\ tool_call' = call
              ELSE /\ tool_out' = NoOutput
                   /\ tool_pc' = "searching"
                   /\ tool_call' =
                          [call EXCEPT
                              !.config = <<SearcherConfig(current_config)>>]
    /\ UNCHANGED <<current_run_id, current_config>>
    /\ UNCHANGED <<rq, worker, lookup_log>>
    /\ UNCHANGED pipelineVars
    /\ UNCHANGED embedVars
    /\ UNCHANGED searchVars
    /\ UNCHANGED rerankVars

\* searcher.search returned to hybrid_search_tool
HybridSearchReturns ==
    /\ tool_pc = "searching"
    /\ tool_call.name = "hybrid"
    /\ \E found \in SearchOutcomes(tool_call.config[1], tool_call.top_k) :
          tool_out' = FormatSearchResults(found)
    /\ tool_pc' = "returned"
    /\ UNCHANGED <<current_run_id, current_config, tool_call, all_results>>
    /\ UNCHANGED pipelineVars
    /\ UNCHANGED concVars
    /\ UNCHANGED embedVars
    /\ UNCHANGED searchVars
    /\ UNCHANGED rerankVars

NextScope ==
    \/ \E m \in Middlewares : MwSetRun(m)
    \/ \E m \in Middlewares : MwReset(m)
    \/ \E m \in Middlewares : MwHybridSearch(m)
    \/ HybridSearchReturns
    \/ ToolSearchRaises

SpecScope == InitTools /\ [][NextScope]_vars

----------------------------------------------------------------------------
(* Properties of _rrf_merge, checked under SpecFusion *)

\* 1-indexed position of chunk cid in a list of distinct chunks, 0 if absent
RankIn(rs, cid) ==
    IF cid \in IdSet(rs)
    THEN CHOOSE i \in 1..Len(rs) : rs[i].chunk_id = cid
    ELSE 0

DistinctInputs ==
    IsDistinct(Ids(vector_results)) /\ IsDistinct(Ids(keyword_results))

\* score * (k + r) = w * scale, that is: score = w / (k + r)
IsSingleScore(score, w, k, r) == score * (k + r) = w * ScoreScale(k)

\* score = wv / (k + rv) + wk / (k + rk), cross-multiplied
IsDoubleScore(score, wv, rv, wk, rk, k) ==
    score * (k + rv) * (k + rk) =
        wv * ScoreScale(k) * (k + rk) + wk * ScoreScale(k) * (k + rv)

\* C1: with chunk_ids distinct within each input list, the fused score of
\* every returned candidate is the sum over the lists it appears in of
\* weight / (k + r), r its 1-indexed position; a vector-only candidate at
\* rank r has exactly w_v / (k + r).
C1_FusedScoreIsWeightedSum ==
    (pc = "merge_done" /\ DistinctInputs) =>
        \A j \in 1..Len(fused_results) :
            LET f == fused_results[j]
                k == config.rrf_k
                rv == RankIn(vector_results, f.chunk_id)
                rk == RankIn(keyword_results, f.chunk_id)
            IN  /\ rv > 0 \/ rk > 0
                /\ (rv > 0 /\ rk = 0) =>
                       IsSingleScore(f.score, config.vector_weight, k, rv)
                /\ (rv = 0 /\ rk > 0) =>
                       IsSingleScore(f.score, config.keyword_weight, k, rk)
                /\ (rv > 0 /\ rk > 0) =>
                       IsDoubleScore(f.score, config.vector_weight, rv,
                                     config.keyword_weight, rk, k)

\* a merge returned a vector-only candidate of rank 2 and a candidate of both
\* lists, under weights 0.6 / 0.4
C1_Witness ==
    /\ pc = "merge_done"
    /\ DistinctInputs
    /\ config.vector_weight = 6
    /\ \E j \in 1..Len(fused_results) :
          /\ RankIn(vector_results, fused_results[j].chunk_id) = 2
          /\ RankIn(keyword_results, fused_results[j].chunk_id) = 0
    /\ \E j \in 1..Len(fused_results) :
          /\ RankIn(vector_results, fused_results[j].chunk_id) > 0
          /\ RankIn(keyword_results, fused_results[j].chunk_id) > 0

\* C2: the list _rrf_merge returns is in descending order of fused score (no
\* record is preceded by one with a lower score), its length is
\* min(top_k, number of distinct chunk_ids of both lists), and vector [A, B],
\* keyword [B, C], weights 0.6 / 0.4, k = 60 give the order B, A, C.
C2_SortedAndTruncated ==
    (pc = "merge_done") =>
        /\ \A i, j \in 1..Len(fused_results) :
              i < j => fused_results[i].score >= fused_results[j].score
        /\ Len(fused_results) =
              Min(top_k_arg,
                  Cardinality(IdSet(vector_results) \cup IdSet(keyword_results)))
        /\ (/\ Ids(vector_results) = <<"A", "B">>
            /\ Ids(keyword_results) = <<"B", "C">>
            /\ config.vector_weight = 6
            /\ config.keyword_weight = 4
            /\ config.rrf_k = 60
            /\ top_k_arg >= 3) => Ids(fused_results) = <<"B", "A", "C">>

\* the scenario of the specification, and a merge that had to cut its output
C2_Witness ==
    /\ pc = "merge_done"
    /\ Ids(vector_results) = <<"A", "B">>
    /\ Ids(keyword_results) = <<"B", "C">>
    /\ config.vector_weight = 6
    /\ config.keyword_weight = 4
    /\ config.rrf_k = 60
    /\ top_k_arg = 2
    /\ Ids(fused_results) = <<"B", "A">>

\* the part of C3 that holds as stated: the score of a candidate of both lists
BothListsScore ==
    \A j \in 1..Len(fused_results) :
        LET f == fused_results[j]
            rv == RankIn(vector_results, f.chunk_id)
            rk == RankIn(keyword_results, f.chunk_id)
        IN  (rv > 0 /\ rk > 0) =>
                IsDoubleScore(f.score, config.vector_weight, rv,
                              config.keyword_weight, rk, config.rrf_k)

\* score > w / (k + r)
ExceedsSingle(score, w, k, r) == score * (k + r) > w * ScoreScale(k)

\* score >= w / (k + r)
AtLeastSingle(score, w, k, r) == score * (k + r) >= w * ScoreScale(k)

\* C3 as stated: for all accepted weights a candidate of both lists scores
\* w_v/(k+r_v) + w_k/(k+r_k), and strictly more than a candidate that holds
\* the same rank in one list and is absent from the other.
C3_Original ==
    (pc = "merge_done" /\ DistinctInputs) =>
        /\ BothListsScore
        /\ \A j \in 1..Len(fused_results) :
              LET f == fused_results[j]
                  rv == RankIn(vector_results, f.chunk_id)
                  rk == RankIn(keyword_results, f.chunk_id)
              IN  (rv > 0 /\ rk > 0) =>
                      /\ ExceedsSingle(f.score, config.vector_weight,
                                       config.rrf_k, rv)
                      /\ ExceedsSingle(f.score, config.keyword_weight,
                                       config.rrf_k, rk)

\* C3 amended: a candidate of both lists scores w_v/(k+r_v) + w_k/(k+r_k);
\* this is never less than the score of a candidate holding the same rank in
\* one list only, and strictly more exactly when the weight of the other
\* list is positive.
C3_BothListsAtLeastSingle ==
    (pc = "merge_done" /\ DistinctInputs) =>
        /\ BothListsScore
        /\ \A j \in 1..Len(fused_results) :
              LET f == fused_results[j]
                  rv == RankIn(vector_results, f.chunk_id)
                  rk == RankIn(keyword_results, f.chunk_id)
                  k == config.rrf_k
              IN  (rv > 0 /\ rk > 0) =>
                      /\ AtLeastSingle(f.score, config.vector_weight, k, rv)
                      /\ AtLeastSingle(f.score, config.keyword_weight, k, rk)
                      /\ ExceedsSingle(f.score, config.vector_weight, k, rv)
                             <=> config.keyword_weight > 0
                      /\ ExceedsSingle(f.score, config.keyword_weight, k, rk)
                             <=> config.vector_weight > 0

\* a candidate of both lists was fused under keyword_weight 0, and its score
\* is that of a vector-only candidate of the same rank
C3_Witness ==
    /\ pc = "merge_done"
    /\ DistinctInputs
    /\ config.keyword_weight = 0
    /\ config.vector_weight = 10
    /\ \E j \in 1..Len(fused_results) :
          LET f == fused_results[j]
              rv == RankIn(vector_results, f.chunk_id)
              rk == RankIn(keyword_results, f.chunk_id)
          IN  /\ rv > 0
              /\ rk > 0
              /\ IsSingleScore(f.score, config.vector_weight, config.rrf_k, rv)

\* chunk ids and fused scores of a result list
IdsAndScores(rs) == [i \in 1..Len(rs) |-> <<rs[i].chunk_id, rs[i].score>>]

\* C4: a second call whose lists hold the same chunk_ids in the same order but
\* carry other raw scores returns the same chunk_ids in the same order with
\* the same fused scores.
C4_RawScoresIgnored ==
    (pc = "merge_done") =>
        \A sims \in VectorSims, ranks \in KeywordRanks :
            IdsAndScores(RrfMerge(config,
                                  VectorList(Ids(vector_results), sims),
                                  KeywordList(Ids(keyword_results), ranks),
                                  top_k_arg))
                = IdsAndScores(fused_results)

\* a merge of two overlapping lists whose raw scores order the chunks the
\* other way round than their positions do
C4_Witness ==
    /\ pc = "merge_done"
    /\ Len(vector_results) = 2
    /\ Len(keyword_results) = 2
    /\ vector_results[1].score < vector_results[2].score
    /\ keyword_results[1].score < keyword_results[2].score
    /\ Len(fused_results) >= 2
    /\ \E sims \in VectorSims :
          VectorList(Ids(vector_results), sims) # vector_results

----------------------------------------------------------------------------
(* Properties of EmbeddingClient.embed, checked under SpecEmbed *)

\* embed has ended after max_retries provider attempts that all failed
AllAttemptsFailed ==
    /\ epc \in {"returned", "raised"}
    /\ provider_calls = max_retries
    /\ embed_result # ProviderEmbeddings(texts)

\* C5: when all 3 provider attempts fail, whatever the kinds of the errors,
\* embed does not raise: it returns one zero-vector of 1536 dimensions per
\* input text.
C5_EmbedNeverRaises ==
    AllAttemptsFailed =>
        /\ epc = "returned"
        /\ Len(embed_result) = Len(texts)
        /\ \A i \in 1..Len(embed_result) :
              embed_result[i].zero /\ embed_result[i].dim = 1536

----------------------------------------------------------------------------
(* Properties of RetrievalPipeline.retrieve, checked under Spec *)

\* the executor has run Reranker.rerank for this call
Reranked == pc \in {"reranked", "done"} /\ predict_calls > 0

\* searcher.search has returned to retrieve
SearchReturned == pc \in {"reranking", "reranked", "done"}

\* C6 as stated: a reranking reached through retrieve returns at most
\* config.final_top_k records, whatever top_k the caller passed, and only
\* chunks of the candidate list.
C6_Original ==
    Reranked =>
        /\ Len(results) <= config.final_top_k
        /\ IdSet(results) \subseteq IdSet(initial_results)

\* C6 amended: a reranking reached through retrieve returns at most top_k
\* records when the caller passed a positive top_k and at most
\* config.final_top_k records when the caller passed none, and only chunks
\* of the candidate list.
C6_RerankBounded ==
    Reranked =>
        /\ top_k_arg # 0 => Len(results) <= top_k_arg
        /\ top_k_arg = 0 => Len(results) <= config.final_top_k
        /\ IdSet(results) \subseteq IdSet(initial_results)

\* a reranking that returned the top_k records the caller asked for, more
\* than final_top_k
C6_Witness ==
    /\ Reranked
    /\ top_k_arg > config.final_top_k
    /\ Len(results) > config.final_top_k
    /\ Len(results) = top_k_arg

\* C7: rerank returns the candidates in descending order of the model's score
\* for (query, content), keeps the first top_k of that order, and gives each
\* kept record its model output as score; the candidate the model scores
\* highest is at position 0 whatever its position in the input.
C7_RerankOrder ==
    Reranked =>
        LET n == Len(results)
            wanted == IF top_k_arg # 0 THEN top_k_arg ELSE config.final_top_k
        IN  /\ Len(predicted) = Len(initial_results)
            /\ n = Min(wanted, Len(initial_results))
            /\ \A i, j \in 1..n : i < j => results[i].score >= results[j].score
            /\ \A j \in 1..n :
                  \E i \in 1..Len(initial_results) :
                      /\ results[j].chunk_id = initial_results[i].chunk_id
                      /\ results[j].content = initial_results[i].content
                      /\ results[j].score = predicted[i]
            /\ \A i \in 1..Len(initial_results) :
                  /\ predicted[i] <= results[1].score
                  /\ predicted[i] > results[n].score =>
                         \E j \in 1..n :
                             /\ results[j].chunk_id = initial_results[i].chunk_id
                             /\ results[j].score = predicted[i]
            /\ \A i \in 1..Len(initial_results) :
                  (\A h \in 1..Len(initial_results) :
                       h # i => predicted[h] < predicted[i])
                      => results[1].chunk_id = initial_results[i].chunk_id

\* three candidates were reranked down to fewer, and the one the model scores
\* strictly highest, last in the input, is first in the output
C7_Witness ==
    /\ Reranked
    /\ Len(initial_results) = 3
    /\ Len(results) < 3
    /\ \A h \in 1..2 : predicted[h] < predicted[3]
    /\ results[1].chunk_id = initial_results[3].chunk_id
    /\ results[1].score = predicted[3]
    /\ results[1].score # initial_results[3].score

\* C8: in vector mode the keyword primitive is never called, in keyword mode
\* the embedding provider and the vector primitive are never called, and in
\* both no fusion is applied; with use_reranking false the result is the
\* source's own list in the source's order, cut to top_k, every record with
\* the score and the search_type the source gave it.
C8_SingleSourceOnly ==
    LET wanted == IF top_k_arg # 0 THEN top_k_arg ELSE config.final_top_k
        own == IF config.search_type = "vector" THEN vector_results
               ELSE keyword_results
    IN  /\ config.search_type = "vector" =>
               /\ keyword_rpc = <<>>
               /\ keyword_results = <<>>
               /\ rrf_calls = 0
        /\ config.search_type = "keyword" =>
               /\ provider_calls = 0
               /\ vector_rpc = <<>>
               /\ vector_results = <<>>
               /\ rrf_calls = 0
        /\ (/\ config.search_type \in {"vector", "keyword"}
            /\ ~config.use_reranking
            /\ pc = "done") =>
               /\ Len(results) = Min(wanted, Len(own))
               /\ \A i \in 1..Len(results) :
                     /\ results[i] = own[i]
                     /\ results[i].search_type = config.search_type

\* a vector-only retrieve without reranking returned two records in the
\* index's order, which is not the order of their scores
C8_Witness ==
    /\ config.search_type = "vector"
    /\ ~config.use_reranking
    /\ pc = "done"
    /\ Len(vector_rpc) = 1
    /\ Len(results) = 2
    /\ results[1].score < results[2].score
    /\ results[1].search_type = "vector"

\* C9: retrieve invokes the reranker iff use_reranking is true and the
\* candidate list is non-empty; with zero candidates it returns an empty list,
\* raises nothing and neither constructs, loads nor invokes the reranking
\* model; when reranking is skipped the candidate list is returned cut to
\* top_k.
C9_RerankIffNonEmpty ==
    LET wanted == IF top_k_arg # 0 THEN top_k_arg ELSE config.final_top_k
        invoked == pc \in {"reranking", "reranked"} \/ predict_calls > 0
    IN  /\ invoked => config.use_reranking /\ initial_results # <<>>
        /\ (SearchReturned /\ config.use_reranking /\ initial_results # <<>>)
               => invoked
        /\ pc = "done" =>
               (predict_calls = 1 <=>
                    (config.use_reranking /\ initial_results # <<>>))
        /\ (SearchReturned /\ initial_results = <<>>) =>
               /\ pc = "done"
               /\ results = <<>>
               /\ ~reranker_built
               /\ model_loads = 0
               /\ predict_calls = 0
        /\ (pc = "done" /\ predict_calls = 0) =>
               /\ Len(results) = Min(wanted, Len(initial_results))
               /\ \A i \in 1..Len(results) : results[i] = initial_results[i]

\* a hybrid retrieve with reranking enabled got no candidate from either
\* source and returned the empty list
C9_Witness ==
    /\ pc = "done"
    /\ config.use_reranking
    /\ config.search_type = "hybrid"
    /\ Len(vector_rpc) = 1
    /\ Len(keyword_rpc) = 1
    /\ initial_results = <<>>
    /\ results = <<>>

\* C10: in hybrid mode the list search returns and the list retrieve returns
\* from it, reranked or not, have pairwise distinct chunk_ids, also when the
\* candidate lists overlap or repeat a chunk.
C10_ChunkIdsUnique ==
    config.search_type = "hybrid" =>
        /\ IsDistinct(Ids(fused_results))
        /\ IsDistinct(Ids(initial_results))
        /\ IsDistinct(Ids(results))

\* a reranked hybrid result of two records, from a vector list that repeats a
\* chunk and a keyword list that overlaps it
C10_Witness ==
    /\ config.search_type = "hybrid"
    /\ Reranked
    /\ pc = "done"
    /\ Len(vector_results) = 2
    /\ ~IsDistinct(Ids(vector_results))
    /\ IdSet(vector_results) \cap IdSet(keyword_results) # {}
    /\ Len(results) = 2

----------------------------------------------------------------------------
(* Datastore failures and abandoned searches, checked under Spec *)

\* C11: a match_chunks or search_chunks_keyword call that raises is not
\* retried and its exception reaches the caller of search and retrieve: each
\* primitive is invoked at most once per request, the failed one exactly
\* once, the request can only end as failed, and no result list (fused,
\* candidate or final, so no partial list in hybrid mode) is produced.
C11_DatastoreFailurePropagates ==
    /\ Len(vector_rpc) <= 1
    /\ Len(keyword_rpc) <= 1
    /\ vpc = "db_failed" => Len(vector_rpc) = 1
    /\ kpc = "db_failed" => Len(keyword_rpc) = 1
    /\ DatastoreFailed =>
           /\ pc \in {"search", "failed"}
           /\ rrf_calls = 0
           /\ fused_results = <<>>
           /\ initial_results = <<>>
           /\ results = <<>>
           /\ predict_calls = 0

\* a hybrid request failed on the keyword query although the vector query
\* had answered with records
C11_Witness ==
    /\ config.search_type = "hybrid"
    /\ pc = "failed"
    /\ kpc = "db_failed"
    /\ vpc = "done"
    /\ vector_results # <<>>
    /\ results = <<>>

\* C12 as stated: once a hybrid search has ended without a result, cancelled
\* or failed, neither sub-search makes a further embedding-provider call,
\* backoff sleep or datastore call.
C12_NoLeakAfterAbandon ==
    [][(config.search_type = "hybrid" /\ pc \in {"failed", "cancelled"}) =>
           /\ provider_calls' = provider_calls
           /\ sleeps' = sleeps
           /\ vector_rpc' = vector_rpc
           /\ keyword_rpc' = keyword_rpc
           /\ source_lookups' = source_lookups]_vars

----------------------------------------------------------------------------
(* The retrieval tools, checked under SpecTools and SpecMulti *)

\* the search_type a single-source tool asks for
ToolMode(name) == IF name = "semantic" THEN "vector" ELSE "keyword"

\* C13 as stated: called under a run context whose config is set,
\* semantic_search_tool searches vector-only and keyword_search_tool
\* keyword-only, under the context's configuration with only search_type
\* replaced, and so returns formatted results, not an error string for a
\* configuration it could not build.
C13_ToolsSearchOneSource ==
    (tool_call.name \in {"semantic", "keyword"} /\ tool_call.with_config) =>
        /\ tool_call.config # NoConfig
        /\ tool_call.config[1].search_type = ToolMode(tool_call.name)
        /\ tool_pc = "searching" =>
               tool_call.config[1] =
                   [current_config[1] EXCEPT
                       !.search_type = ToolMode(tool_call.name)]

\* C14 as stated: a RetrievalConfig with use_reranking true and
\* final_top_k > initial_top_k cannot be constructed, so no search or rerank
\* runs under one.
C14_InvalidTopKRejected ==
    (config.use_reranking /\ config.final_top_k > config.initial_top_k) =>
        /\ pc = "idle"
        /\ vector_rpc = <<>>
        /\ keyword_rpc = <<>>
        /\ predict_calls = 0

\* the multi-query tool is in its loop or has returned from it
InMultiQuery == tool_call.name = "multi" /\ tool_call.config # NoConfig

\* C15 as stated: multi-query search keeps one record per chunk_id, the
\* first-seen one, and that record carries the highest score among all
\* occurrences of the chunk_id.
C15_Original ==
    InMultiQuery =>
        /\ IsDistinct(Ids(all_results))
        /\ \A i \in 1..Len(all_results) :
              LET occ == tool_call.seen[all_results[i].chunk_id]
              IN  /\ all_results[i] = occ.first
                  /\ all_results[i].score = occ.highest

\* C15, amended: multi-query search keeps exactly one record per chunk_id
\* that any query returned, in the order of first appearance; the record kept
\* is the first one returned for the chunk_id, with the score of that
\* occurrence, which is at most the highest score among the occurrences.
C15_FirstSeenKept ==
    InMultiQuery =>
        /\ IsDistinct(Ids(all_results))
        /\ IdSet(all_results) = DOMAIN tool_call.seen
        /\ \A i \in 1..Len(all_results) :
              LET occ == tool_call.seen[all_results[i].chunk_id]
              IN  /\ all_results[i] = occ.first
                  /\ all_results[i].score <= occ.highest

\* two queries were searched and the tool returned; a chunk_id came back
\* again with a higher score than the record kept for it
C15_Witness ==
    /\ InMultiQuery
    /\ tool_pc = "returned"
    /\ tool_call.done = 2
    /\ tool_out.kind = "found"
    /\ \E i \in 1..Len(all_results) :
          all_results[i].score <
              tool_call.seen[all_results[i].chunk_id].highest

----------------------------------------------------------------------------
(* Source information, checked under Spec *)

\* the source fields of record r are those _get_source_info answers with
SourceFieldsOf(r) ==
    IF r.source_id \in DOMAIN SourcesTable
    THEN /\ r.source_title = SourcesTable[r.source_id].title
         /\ r.source_uri = SourcesTable[r.source_id].uri
    ELSE /\ r.source_title = "Unknown"
         /\ r.source_uri = ""

\* C16: a candidate whose source has no record gets the title "Unknown" and
\* the uri "" and is still part of the vector, keyword and hybrid results:
\* the missing source is no error, is looked up without being cached, and
\* a fused list that was not cut holds every candidate of both lists.
C16_MissingSourceSentinel ==
    /\ \A rs \in {vector_results, keyword_results, fused_results,
                  initial_results, results} :
          \A i \in 1..Len(rs) : SourceFieldsOf(rs[i])
    /\ DOMAIN source_cache \subseteq DOMAIN SourcesTable
    /\ vpc = "done" => Len(vector_rpc) = 1
    /\ kpc = "done" => Len(keyword_rpc) = 1
    /\ (rrf_calls = 1
        /\ Cardinality(IdSet(vector_results) \cup IdSet(keyword_results))
              <= SearchTopK(config, search_top_k)) =>
           IdSet(fused_results) =
               IdSet(vector_results) \cup IdSet(keyword_results)

\* a hybrid request returned a record of a chunk whose source is missing,
\* which both the vector and the keyword list held
C16_Witness ==
    /\ config.search_type = "hybrid"
    /\ pc = "done"
    /\ \E i \in 1..Len(vector_results) :
          vector_results[i].source_id \notin DOMAIN SourcesTable
    /\ \E i \in 1..Len(keyword_results) :
          keyword_results[i].source_id \notin DOMAIN SourcesTable
    /\ \E i \in 1..Len(results) :
          /\ results[i].source_id \notin DOMAIN SourcesTable
          /\ results[i].source_title = "Unknown"
          /\ results[i].source_uri = ""

----------------------------------------------------------------------------
(* Empty inputs, checked under SpecEmbed and SpecRerank *)

\* C17: embed on an empty list of texts returns an empty list; the embedding
\* provider is not called and no backoff sleep is entered.
C17_EmptyEmbed ==
    (pc = "embed_call" /\ texts = <<>>) =>
        /\ epc \in {"call", "returned"}
        /\ provider_calls = 0
        /\ sleeps = <<>>
        /\ embed_result = <<>>

\* embed([]) has returned
C17_Witness ==
    /\ pc = "embed_call"
    /\ texts = <<>>
    /\ epc = "returned"
    /\ embed_result = <<>>

\* C18: Reranker.rerank on an empty result list returns an empty list at
\* once: the reranking model is neither loaded nor invoked, also when this is
\* the first use of the reranker.
C18_EmptyRerank ==
    (pc = "reranked" /\ initial_results = <<>>) =>
        /\ results = <<>>
        /\ model_loads = 0
        /\ predict_calls = 0
        /\ predicted = <<>>

\* the first rerank call of a Reranker got an empty list and has returned
C18_Witness ==
    /\ pc = "reranked"
    /\ initial_results = <<>>
    /\ ~reranker_built
    /\ vector_rpc = <<>>
    /\ results = <<>>

----------------------------------------------------------------------------
(* Records handed to fusion and reranking, checked under SpecRecords *)

\* the score and search_type of every record of a list
ScoresAndTypes(rs) ==
    [i \in 1..Len(rs) |-> <<rs[i].score, rs[i].search_type>>]

\* C19 as stated: HybridSearcher._rrf_merge, HybridSearch._rrf_fusion and
\* Reranker.rerank build new records: over each of these calls every record
\* of the lists handed in keeps its score and its search_type.
C19_InputsNotMutated ==
    [][/\ pc \in {"merge_call", "fusion_call"} =>
              /\ ScoresAndTypes(vector_results') =
                     ScoresAndTypes(vector_results)
              /\ ScoresAndTypes(keyword_results') =
                     ScoresAndTypes(keyword_results)
       /\ pc = "reranking" =>
              ScoresAndTypes(initial_results') =
                  ScoresAndTypes(initial_results)]_vars

----------------------------------------------------------------------------
(* Fetch sizes, checked under Spec *)

\* every match_count handed to a candidate source so far is n
AllMatchCounts(n) ==
    /\ \A i \in 1..Len(vector_rpc) : vector_rpc[i] = n
    /\ \A i \in 1..Len(keyword_rpc) : keyword_rpc[i] = n

\* C20 as stated: in hybrid mode both sources are queried for initial_top_k
\* rows when use_reranking is true and for final_top_k rows when it is false;
\* in vector or keyword mode the single source is queried for final_top_k.
C20_Original ==
    AllMatchCounts(IF config.search_type = "hybrid" /\ config.use_reranking
                   THEN config.initial_top_k
                   ELSE config.final_top_k)

\* C20, amended: in hybrid mode both sources are queried for initial_top_k
\* rows whether or not use_reranking is set; in vector or keyword mode the
\* single source is queried for initial_top_k rows when use_reranking is
\* true and for the caller's top_k, final_top_k when the caller gave none,
\* when it is false.
C20_MatchCountFollowsMode ==
    AllMatchCounts(IF config.search_type = "hybrid" \/ config.use_reranking
                   THEN config.initial_top_k
                   ELSE IF top_k_arg # 0 THEN top_k_arg
                   ELSE config.final_top_k)

\* a hybrid request without reranking has queried both sources for
\* initial_top_k rows, which is not final_top_k, and has returned
C20_Witness ==
    /\ config.search_type = "hybrid"
    /\ ~config.use_reranking
    /\ config.initial_top_k # config.final_top_k
    /\ top_k_arg = 0
    /\ pc = "done"
    /\ vector_rpc = <<config.initial_top_k>>
    /\ keyword_rpc = <<config.initial_top_k>>

----------------------------------------------------------------------------
(* The retry loop of embed, checked under SpecEmbedLive *)

\* the delay of the i-th backoff sleep: the initial delay doubled i - 1 times
RECURSIVE DelayOf(_)
DelayOf(i) == IF i = 1 THEN initial_retry_delay ELSE 2 * DelayOf(i - 1)

\* attempts and sleeps of an embed call so far: at most max_retries attempts,
\* one sleep after each failed attempt but the last, each sleep of DelayOf
BackoffShape ==
    /\ provider_calls <= max_retries
    /\ Len(sleeps) <= max_retries - 1
    /\ \A i \in 1..Len(sleeps) : sleeps[i] = DelayOf(i)
    /\ epc = "sleeping" => Len(sleeps) = provider_calls
    /\ epc = "attempt" => Len(sleeps) = provider_calls
    /\ (epc \in {"returned", "raised"} /\ provider_calls > 0) =>
           Len(sleeps) = provider_calls - 1

\* C23: embed makes at most 3 provider attempts per call and always
\* terminates; it sleeps only between attempts, never after the last one,
\* first for the initial delay of 1 s and then for twice the previous delay;
\* the attempts and the delays are the same whichever of the two error kinds
\* each failed attempt met.
C23_BoundedBackoff ==
    /\ [](pc = "embed_call" => BackoffShape)
    /\ <>(epc \in {"returned", "raised"})

\* all three attempts failed, with both error kinds among them, after sleeps
\* of 1 s and 2 s
C23_Witness ==
    /\ pc = "embed_call"
    /\ epc = "returned"
    /\ provider_calls = max_retries
    /\ last_error = "error"
    /\ sleeps = <<1, 2>>
    /\ embed_result = FallbackEmbeddings(texts)

----------------------------------------------------------------------------
(* Records and order of _rrf_merge, checked under SpecFusion *)

\* the fields of a record other than score and search_type
Payload(r) == [r EXCEPT !.score = 0, !.search_type = ""]

\* C26: a fused record of a chunk_id that the vector list holds has every
\* field other than score and search_type from a vector-search record, also
\* when the keyword list holds the chunk_id too; a fused record of a chunk_id
\* only the keyword list holds has them from the keyword record; every fused
\* record has search_type "hybrid".
C26_VectorRecordPreferred ==
    pc = "merge_done" =>
        \A n \in 1..Len(fused_results) :
            LET f == fused_results[n]
                from == IF f.chunk_id \in IdSet(vector_results)
                        THEN vector_results ELSE keyword_results
            IN  /\ f.search_type = "hybrid"
                /\ \E i \in 1..Len(from) :
                      /\ from[i].chunk_id = f.chunk_id
                      /\ Payload(from[i]) = Payload(f)

\* the fused list holds a chunk of both lists and a chunk of the keyword
\* list only
C26_Witness ==
    /\ pc = "merge_done"
    /\ \E n \in 1..Len(fused_results) :
          /\ fused_results[n].chunk_id \in IdSet(vector_results)
          /\ fused_results[n].chunk_id \in IdSet(keyword_results)
          /\ fused_results[n].page_start = 1
    /\ \E n \in 1..Len(fused_results) :
          /\ fused_results[n].chunk_id \notin IdSet(vector_results)
          /\ fused_results[n].page_start = 0

RECURSIVE FirstSeen(_, _)
\* the chunk ids of ids in the order of their first occurrence, after acc
FirstSeen(ids, acc) ==
    IF ids = <<>> THEN acc
    ELSE FirstSeen(Tail(ids),
             IF \E i \in 1..Len(acc) : acc[i] = Head(ids)
             THEN acc ELSE Append(acc, Head(ids)))

\* position of cid in a list of distinct ids
PositionIn(ids, cid) == CHOOSE i \in 1..Len(ids) : ids[i] = cid

\* C29: candidates with equal fused score appear in the order of first
\* insertion: candidates of the vector list first, in vector-list order, then
\* keyword-only candidates in keyword-list order.
C29_TiesByInsertion ==
    pc = "merge_done" =>
        LET order == FirstSeen(Ids(vector_results) \o Ids(keyword_results),
                               <<>>)
        IN  \A i, j \in 1..Len(fused_results) :
                (i < j /\ fused_results[i].score = fused_results[j].score) =>
                    PositionIn(order, fused_results[i].chunk_id) <
                        PositionIn(order, fused_results[j].chunk_id)

\* a vector-only and a keyword-only candidate with the same positive fused
\* score, the vector one first
C29_Witness ==
    /\ pc = "merge_done"
    /\ Len(fused_results) >= 2
    /\ fused_results[1].score = fused_results[2].score
    /\ fused_results[1].score > 0
    /\ fused_results[1].chunk_id \in IdSet(vector_results)
    /\ fused_results[2].chunk_id \notin IdSet(vector_results)

----------------------------------------------------------------------------
(* Records of rerank, checked under Spec *)

\* C30: Reranker.rerank changes nothing but the score: each record it
\* returns is one of the candidate records with the score the model gave it
\* and all other fields, search_type included, as they were.
C30_RerankKeepsFields ==
    Reranked =>
        \A n \in 1..Len(results) :
            \E i \in 1..Len(initial_results) :
                results[n] =
                    [initial_results[i] EXCEPT !.score = predicted[i]]

\* a reranked vector-mode result is still tagged "vector" and a model score
\* took the place of the similarity
C30_Witness ==
    /\ Reranked
    /\ pc = "done"
    /\ config.search_type = "vector"
    /\ Len(results) >= 1
    /\ results[1].search_type = "vector"
    /\ \A i \in 1..Len(initial_results) :
          initial_results[i].score # results[1].score

----------------------------------------------------------------------------
(* Stage of the source lookups, checked under Spec *)

\* the candidate records fetched so far, of both lists
Candidates == vector_results \o keyword_results

\* source ids of the records of a list
SourceIds(rs) == {rs[i].source_id : i \in 1..Len(rs)}

\* number of records of a list whose source has no row
MissingSourceRecords(rs) ==
    Cardinality({i \in 1..Len(rs) : rs[i].source_id \notin DOMAIN SourcesTable})

----------------------------------------------------------------------------
(* Overlap of the two sub-searches, checked under Spec *)

\* C22: in hybrid mode the network latencies of the two sub-operations
\* overlap: also when the embedding provider answers at the first attempt
\* (no backoff sleep was needed), the keyword index query is issued while the
\* vector sub-operation's embedding request and index query have not yet
\* completed.
C22_LatenciesOverlap ==
    [][(/\ config.search_type = "hybrid"
        /\ pc = "search"
        /\ keyword_rpc' # keyword_rpc
        /\ sleeps = <<>>) => vpc \in {"start", "embedding"}]_vars

----------------------------------------------------------------------------
(* The shared source cache, checked under SpecConc *)

\* C24 as stated: between two clear_cache calls the sources table is queried
\* at most once for every source_id.
C24_Original ==
    \A s \in Sources : lookup_log[s] <= 1

\* C24: under every interleaving of the sub-searches of the calls in flight,
\* between two clear_cache calls the sources table is queried at most once
\* for every source_id that has a record, which is cached from then on; a
\* cached entry is the record of the table for its source_id; a source_id
\* without a record is never cached.
C24_CacheOncePerFoundSource ==
    /\ \A s \in DOMAIN SourcesTable :
          /\ lookup_log[s] <= 1
          /\ lookup_log[s] = 1 <=> s \in DOMAIN source_cache
    /\ \A s \in DOMAIN source_cache :
          /\ s \in DOMAIN SourcesTable
          /\ source_cache[s] = SourcesTable[s]

\* both calls have fetched a chunk of source S1 since the cache was cleared,
\* with one query for S1; the source S2 without a record was queried twice
C24_Witness ==
    /\ \A r \in Requests :
          \E i \in 1..Len(rq[r].initial_results) :
              rq[r].initial_results[i].source_id = "S1"
    /\ source_lookups = 3
    /\ lookup_log["S1"] = 1
    /\ lookup_log["S2"] = 2

----------------------------------------------------------------------------
(* Reranking off the event loop, checked under SpecConc *)

C28_ModelLoadedOnce ==
    pc = "concurrent" => model_loads <= 1

----------------------------------------------------------------------------
(* Scope of a tool call, checked under SpecScope *)

\* C27: a search tool call made for the agent of one middleware filters by
\* the run id that middleware has set and uses its config, never those of
\* the other middleware; and once the middleware is reset, a tool call made
\* for it is no longer scoped to its former run.
C27_ScopedToOwnRun ==
    mw.caller # "none" =>
        /\ mw.for_run # NoRun =>
               /\ mw.run_filter = mw.for_run
               /\ tool_pc = "searching" =>
                      tool_call.config = <<MwConfig[mw.caller]>>
        /\ mw.for_run = NoRun => mw.run_filter # RunOf[mw.caller]

====
